---- MODULE Spec2Model ----
(***************************************************************************)
(* Hybrid retrieval engine of the tender-document RAG system:              *)
(*   etl/pipeline.py, etl/vector_store.py, etl/deduplication.py            *)
(*   utils/graph_manager.py, utils/bm25_manager.py                         *)
(*   generation/rag_service.py (DeepSeekRAGService.chat_stream)            *)
(*                                                                         *)
(* Chunk texts are small naturals standing for distinct cleaned contents;  *)
(* text 0 stands for a content whose cleaned length is at most 5.          *)
(* uuid5(NAMESPACE_DNS, f"{name}_{i}") is the pair <<name, i>> (injective  *)
(* on file names and indices); uuid4() is a fresh natural.                 *)
(***************************************************************************)
EXTENDS Integers, Sequences, FiniteSets, TLC

\* ------------------------------------------------------------------ bounds
MaxIngest == 2       \* process_file / add_chunks runs explored
MaxWindow == 2       \* window sizes explored for get_context_window
MaxUpdates == 2      \* update_project_index calls explored
MaxFeeds == 1        \* update_project_index calls explored next to ingestion
MaxLoads == 1        \* process_file runs explored under degraded retrieval
MaxCandidates == 2   \* candidates in a list handed to the reranker
MaxRuns == 2         \* runs of the writer agent on one cache key
TocLen == 3          \* chapters of an outline (part of the cache key)

\* ------------------------------------------------------- program constants
BatchSize == 100     \* add_chunks: batch_size
MinContentLen == 5   \* process_file: len(chunk.content) > 5
GraphTopN == 5       \* chat_stream: initial_docs[:5]
GraphHops == 1       \* chat_stream: get_context_window(cid, 1)
FetchFactor == 5     \* chat_stream: fetch_k = final_top_k * 5
Bm25TopK == 5        \* chat_stream: bm25_manager.search(..., top_k=5)
ExcelSources == 3    \* chat_stream: final_docs[:3] after the Excel agent
ScoreUnit == 600     \* search: the score 1.0, in the integer unit of the model
HybridTenths == 3    \* _apply_bm25_score: the weight 0.3
MaxWorkers == 3      \* _run_writer_agent_stream: MAX_WORKERS

\* ------------------------------------------------------------ input domains
Files == {"a.docx", "b.docx"}
Projects == {"X", "Y"}
Categories == {"tech", "biz"}
\* what a parser run yields for a file content: the chunk texts in emission order
Bodies == {<<1, 2, 3, 4>>, <<5, 0, 6>>}
None == "None"               \* Python None / a missing dict key
NoId == <<"None", 0>>        \* a missing chunk id
AllProjects == "ALL"         \* "所有项目"
AllTypes == "ALLTYPES"       \* "所有类型"

VARIABLES
    collection,   \* Chroma collection: set of records, at most one per store id
    uuidCtr,      \* uuid4 values handed out so far
    ingests,      \* process_file / add_chunks runs so far (bounded by MaxIngest)
    docNodes,     \* graph: (:Document {name, project})
    chunkNodes,   \* graph: (:Chunk {id, text, index}), a function id -> [text, index]
    containsE,    \* graph: (d)-[:CONTAINS]->(c)
    nextE,        \* graph: (c)-[:NEXT]->(c')
    processed,    \* processed_files table: file hashes (a hash is the file content)
    registry,     \* projects table: registered project names
    lastRun,      \* the last process_file run: its inputs and returned status
    origin,       \* history: text -> projects it was ingested under
    modelFile,    \* bm25_indices/<safe>_model.pkl: safe name -> pickled index
    dataFile,     \* bm25_indices/<safe>_data.pkl: safe name -> pickled corpus
    updates,      \* update_project_index calls so far (bounded)
    history,      \* history: the update_project_index calls, <<project, new_chunks>>
    chat          \* the chat_stream call in progress or just finished

ingestVars == <<collection, uuidCtr, ingests, docNodes, chunkNodes, containsE, nextE,
                processed, registry, lastRun, origin>>
bm25Vars == <<modelFile, dataFile, updates, history>>
vars == <<ingestVars, bm25Vars, chat>>

\* ================================================================ helpers
Min(a, b) == IF a < b THEN a ELSE b
Range(s) == {s[i] : i \in 1..Len(s)}
Take(s, n) == SubSeq(s, 1, Min(n, Len(s)))

\* uuid.uuid5(uuid.NAMESPACE_DNS, f"{name}_{i}"), i counted from 0
Uuid5(name, i) == <<name, i>>

\* TextCleaner.clean followed by the length test of process_file:
\* a text chunk is kept when its cleaned content is longer than MinContentLen
CleanedLen(text) == IF text = 0 THEN MinContentLen ELSE MinContentLen + 1

\* ======================================================= etl/tender_parser.py
\* str.lower().endswith((".xlsx", ".xls")) on the file names of the model
IsExcel(name) == name \in {"c.xlsx"}

\* TenderDocParser.parse_file / ETLPipeline._parse_excel: one IndexableChunk per
\* text (per row of a sheet: type "table"), chunk_id = uuid4()
parse_file(name, body, base) ==
    [i \in 1..Len(body) |->
        [content |-> body[i], chunk_id |-> base + i,
         metadata |-> [source_file |-> name,
                       type |-> IF IsExcel(name) THEN "table" ELSE "text",
                       chunk_id |-> NoId,
                       project_name |-> None, category |-> None]]]

\* ======================================================= etl/pipeline.py
\* process_file, step 4: cleaning, metadata override and id generation
RECURSIVE clean_chunks(_, _, _, _, _)
clean_chunks(chunks, i, display_name, project, category) ==
    IF i > Len(chunks) THEN <<>>
    ELSE LET c == chunks[i]
             rest == clean_chunks(chunks, i + 1, display_name, project, category)
         IN IF c.metadata.type = "table" \/ CleanedLen(c.content) > MinContentLen
            THEN <<[c EXCEPT !.metadata.source_file = display_name,
                             !.metadata.project_name = project,
                             !.metadata.category = category,
                             !.metadata.chunk_id = Uuid5(display_name, i - 1)]>> \o rest
            ELSE rest

\* ======================================================= etl/vector_store.py
\* the id a chunk is upserted under
store_id(chunk) == chunk.chunk_id

\* collection.upsert of one batch: a record with a known id is overwritten
upsert(coll, batch) ==
    LET ids == {store_id(batch[k]) : k \in 1..Len(batch)}
        recs == {[id |-> store_id(batch[k]), content |-> batch[k].content,
                  metadata |-> batch[k].metadata] : k \in 1..Len(batch)}
    IN {r \in coll : r.id \notin ids} \cup recs

\* VectorStoreManager.add_chunks: batches of BatchSize, in order
RECURSIVE add_batches(_, _, _)
add_batches(coll, chunks, i) ==
    IF i > Len(chunks) THEN coll
    ELSE add_batches(upsert(coll, SubSeq(chunks, i, Min(i + BatchSize - 1, Len(chunks)))),
                     chunks, i + BatchSize)
add_chunks(coll, chunks) == IF chunks = <<>> THEN coll ELSE add_batches(coll, chunks, 1)

\* ======================================================= utils/graph_manager.py
\* GraphManager._create_chain_tx: the ids are recomputed from the position in the
\* list it is given; MATCH (d:Document {name}) matches the documents of every project
create_chain_docs(docs, filename, project) == docs \cup {<<filename, project>>}

\* a chunk write that adds to the stored text instead of setting it
mutant_create_chain_chunks(nodes, filename, chunks) ==
    LET ids == {Uuid5(filename, i - 1) : i \in 1..Len(chunks)}
    IN [id \in DOMAIN nodes \cup ids |->
          IF id \in ids
          THEN [text |-> (IF id \in DOMAIN nodes THEN nodes[id].text ELSE 0)
                         + chunks[id[2] + 1].content,
                index |-> id[2]]
          ELSE nodes[id]]

\* MERGE (c:Chunk {id}) SET c.text, c.index: one node per id, properties overwritten
create_chain_chunks(nodes, filename, chunks) ==
    LET ids == {Uuid5(filename, i - 1) : i \in 1..Len(chunks)}
    IN [id \in DOMAIN nodes \cup ids |->
          IF id \in ids THEN [text |-> chunks[id[2] + 1].content, index |-> id[2]]
          ELSE nodes[id]]

create_chain_contains(edges, docs, filename, chunks) ==
    edges \cup {<<d, Uuid5(filename, i - 1)>> :
                  d \in {x \in docs : x[1] = filename}, i \in 1..Len(chunks)}

create_chain_next(edges, filename, chunks) ==
    edges \cup {<<Uuid5(filename, i - 1), Uuid5(filename, i)>> : i \in 1..(Len(chunks) - 1)}

\* MATCH (a)-[:NEXT*1..w]->(b): the paths of 1..w NEXT edges leaving `from`;
\* a path is the sequence of the node ids it visits
RECURSIVE paths_from(_, _, _)
paths_from(edges, from, w) ==
    IF w = 0 THEN {<<from>>}
    ELSE LET shorter == paths_from(edges, from, w - 1)
             longest == {x \in shorter : Len(x) = w}
         IN shorter \cup UNION {{Append(p, e[2]) : e \in {y \in edges : y[1] = p[Len(p)]}} :
                                 p \in longest}
Inverse(edges) == {<<e[2], e[1]>> : e \in edges}
\* a traversal that always stops after one hop
mutant_match_window(w) == 1
\* the bound of the variable-length pattern, [:NEXT*1..window_size]
match_window(w) == w

\* the far ends of the matched paths, ORDER BY index ascending
RECURSIVE order_by_index(_, _)
order_by_index(nodes, ends) ==
    IF ends = {} THEN <<>>
    ELSE LET m == CHOOSE p \in ends :
                     \A q \in ends : nodes[p[Len(p)]].index <= nodes[q[Len(q)]].index
         IN <<m[Len(m)]>> \o order_by_index(nodes, ends \ {m})

Node(nodes, id) == [id |-> id, text |-> nodes[id].text, index |-> nodes[id].index]
NullNode == [id |-> NoId, text |-> 0, index |-> -1]

\* the rows of the query for a target that exists: one row per (prev path, next
\* path); an OPTIONAL MATCH without a match yields one null
window_rows(nodes, edges, chunk_id, window_size) ==
    LET w == match_window(window_size)
        back == {p \in paths_from(Inverse(edges), chunk_id, w) : Len(p) > 1}
        fwd == {p \in paths_from(edges, chunk_id, w) : Len(p) > 1}
        prevs == order_by_index(nodes, back)
        nexts == order_by_index(nodes, fwd)
        P == IF prevs = <<>> THEN <<NullNode>> ELSE [k \in 1..Len(prevs) |-> Node(nodes, prevs[k])]
        N == IF nexts = <<>> THEN <<NullNode>> ELSE [k \in 1..Len(nexts) |-> Node(nodes, nexts[k])]
    IN [r \in 1..(Len(P) * Len(N)) |->
          [prev |-> P[((r - 1) \div Len(N)) + 1],
           target |-> Node(nodes, chunk_id),
           next |-> N[((r - 1) % Len(N)) + 1]]]

\* a query whose first MATCH is optional too: an unknown target yields a row of nulls
mutant_get_context_window(nodes, edges, chunk_id, window_size) ==
    IF chunk_id \notin DOMAIN nodes
    THEN <<[prev |-> NullNode, target |-> NullNode, next |-> NullNode]>>
    ELSE window_rows(nodes, edges, chunk_id, window_size)

\* GraphManager.get_context_window(chunk_id, window_size): result.data(); the first
\* MATCH finds no target for an unknown id, so the result has no row
get_context_window(nodes, edges, chunk_id, window_size) ==
    IF chunk_id \notin DOMAIN nodes THEN <<>>
    ELSE window_rows(nodes, edges, chunk_id, window_size)

\* ======================================================= utils/bm25_manager.py
\* the characters of a project name
Chars(p) ==
    CASE p = "X" -> <<"X">>
      [] p = "Y" -> <<"Y">>
      [] p = "X/" -> <<"X", "/">>
      [] p = "X Y" -> <<"X", " ", "Y">>
      [] p = "ALL" -> <<"A", "L", "L">>
      [] OTHER -> <<>>
IsAlnum(c) == c \in {"X", "Y", "A", "L"}

RECURSIVE strip(_)
strip(cs) ==
    IF cs = <<>> THEN cs
    ELSE IF Head(cs) = " " THEN strip(Tail(cs))
    ELSE IF cs[Len(cs)] = " " THEN strip(SubSeq(cs, 1, Len(cs) - 1))
    ELSE cs

\* BM25Persistence._get_file_paths: the base name both file names are built on
safe_name(project_name) ==
    strip(SelectSeq(Chars(project_name), LAMBDA c : IsAlnum(c) \/ c \in {" ", "_", "-"}))

\* the dict key of a corpus item: the chunk id, else "hash_<hash(content)>"
data_key(item) ==
    IF item.metadata.chunk_id # NoId THEN item.metadata.chunk_id
    ELSE <<"hash_", item.content>>

\* a merge that appends whatever it is given
mutant_dict_put(values, item) == Append(values, item)

\* data_map[key] = item on an insertion-ordered dict, kept as the list of its values
dict_put(values, item) ==
    IF \E k \in 1..Len(values) : data_key(values[k]) = data_key(item)
    THEN [k \in 1..Len(values) |->
             IF data_key(values[k]) = data_key(item) THEN item ELSE values[k]]
    ELSE Append(values, item)

RECURSIVE dict_put_all(_, _)
dict_put_all(values, items) ==
    IF items = <<>> THEN values
    ELSE dict_put_all(dict_put(values, Head(items)), Tail(items))

\* update_project_index, steps 1-2: list(data_map.values())
merge_corpus(existing_data, new_chunks) ==
    dict_put_all(dict_put_all(<<>>, existing_data), new_chunks)

\* BM25Okapi(tokenized_corpus): the index keeps the documents it was built over
build_index(full_data) == [k \in 1..Len(full_data) |-> full_data[k].content]

\* the lexical score of an indexed document for the query (a fixed function)
LexScore(text) == (text * 5) % 7

\* bm25.get_top_n(query, corpus_data, n): argsort(scores)[::-1][:n]; the stable
\* ascending order reversed, so equal scores come out in descending position
RECURSIVE top_positions(_, _)
top_positions(index, left) ==
    IF left = {} THEN <<>>
    ELSE LET m == CHOOSE i \in left : \A j \in left :
                     \/ LexScore(index[i]) > LexScore(index[j])
                     \/ (LexScore(index[i]) = LexScore(index[j]) /\ i >= j)
         IN <<m>> \o top_positions(index, left \ {m})

get_top_n(index, corpus_data, n) ==
    LET order == Take(top_positions(index, 1..Len(index)), n)
    IN [k \in 1..Len(order) |-> corpus_data[order[k]]]

\* a search that takes whatever the two files hold
mutant_search_project(models, datas, proj, top_k) ==
    IF proj = AllProjects THEN <<>>
    ELSE IF safe_name(proj) \notin DOMAIN models THEN <<>>
    ELSE IF safe_name(proj) \notin DOMAIN datas THEN <<>>
    ELSE Take(datas[safe_name(proj)], top_k)

\* BM25Persistence.search: what one project contributes; a file of length zero
\* (opened for writing and never filled) is <<>>
search_project(models, datas, proj, top_k) ==
    IF proj = AllProjects THEN <<>>
    ELSE IF safe_name(proj) \notin DOMAIN models THEN <<>>
    ELSE IF safe_name(proj) \notin DOMAIN datas THEN <<>>                   \* open() raises
    ELSE IF models[safe_name(proj)] = <<>> \/ datas[safe_name(proj)] = <<>> THEN <<>>
                                                                            \* pickle.load raises
    ELSE IF Len(datas[safe_name(proj)]) # Len(models[safe_name(proj)]) THEN <<>>  \* assert in get_top_n
    ELSE get_top_n(models[safe_name(proj)], datas[safe_name(proj)], top_k)

RECURSIVE search(_, _, _, _)
search(models, datas, projects, top_k) ==
    IF projects = <<>> THEN <<>>
    ELSE search_project(models, datas, Head(projects), top_k)
         \o search(models, datas, Tail(projects), top_k)

\* ======================================================= etl/deduplication.py
\* a fingerprint that does not depend on the content
mutant_get_file_hash(body) == <<>>

\* get_file_hash: md5 of the file content (the content is the parsed body)
get_file_hash(body) == body
\* is_processed: a failed lookup is caught and answers False
is_processed(body, dbOk) == dbOk /\ get_file_hash(body) \in processed
\* mark_as_processed: a failed insert is caught and leaves the table as it was
mark_as_processed(tbl, body, dbOk) == IF dbOk THEN tbl \cup {get_file_hash(body)} ELSE tbl

\* ======================================================= generation/rag_service.py
\* filter_config["project"]: a missing key, a string or a list of strings
ProjNone == [kind |-> "none", val |-> <<>>]
ProjStr(p) == [kind |-> "str", val |-> <<p>>]
ProjList(ps) == [kind |-> "list", val |-> ps]
\* Python truthiness of the scope value
Truthy(scope) ==
    \/ scope.kind = "str" /\ scope.val[1] # ""
    \/ scope.kind = "list" /\ scope.val # <<>>
IsAll(scope) == scope.kind = "str" /\ scope.val[1] = AllProjects

Cond(field, op, val) == [field |-> field, op |-> op, val |-> val]

\* chat_stream 3.1, condition 1: the project scope
project_conditions(cfg) ==
    IF Truthy(cfg.project) /\ ~IsAll(cfg.project)
    THEN IF cfg.project.kind = "list" /\ Len(cfg.project.val) > 0
         THEN <<Cond("project_name", "$in", cfg.project.val)>>
         ELSE IF cfg.project.kind = "str"
         THEN <<Cond("project_name", "$eq", cfg.project.val)>>
         ELSE <<>>
    ELSE <<>>

\* chat_stream 3.1, condition 2: the document type (None: a missing key)
type_conditions(cfg) ==
    IF cfg.type # None /\ cfg.type # "" /\ cfg.type # AllTypes
    THEN <<Cond("category", "$eq", <<cfg.type>>)>>
    ELSE <<>>

\* a file condition that is appended to the others instead of replacing them
mutant_build_conditions(cfg) ==
    project_conditions(cfg) \o type_conditions(cfg)
    \o (IF cfg.files # <<>> THEN <<Cond("source_file", "$in", cfg.files)>> ELSE <<>>)

\* chat_stream 3.1, condition 3: a non-empty file list replaces the other conditions
build_conditions(cfg) ==
    IF cfg.files # <<>>
    THEN <<Cond("source_file", "$in", cfg.files)>>
    ELSE project_conditions(cfg) \o type_conditions(cfg)

\* search_kwargs["filter"]
build_filter(cfg) ==
    LET conditions == build_conditions(cfg)
    IN IF Len(conditions) > 1 THEN [op |-> "$and", conds |-> conditions]
       ELSE IF Len(conditions) = 1 THEN [op |-> "single", conds |-> conditions]
       ELSE [op |-> "absent", conds |-> <<>>]

\* Chroma's where clause on one record's metadata
cond_holds(meta, c) ==
    CASE c.field = "project_name" -> meta.project_name \in Range(c.val)
      [] c.field = "category" -> meta.category \in Range(c.val)
      [] c.field = "source_file" -> meta.source_file \in Range(c.val)
where_holds(meta, filter) == \A k \in 1..Len(filter.conds) : cond_holds(meta, filter.conds[k])

\* the similarity of a stored text to the query (a fixed function)
VecSim(text) == (text * 3) % 7

Document(content, meta, method) ==
    [page_content |-> content,
     metadata |-> [source_file |-> meta.source_file, type |-> meta.type,
                   chunk_id |-> meta.chunk_id, project_name |-> meta.project_name,
                   category |-> meta.category, source_method |-> method]]

\* the retriever: the k most similar records that pass the filter
RECURSIVE by_similarity(_)
by_similarity(recs) ==
    IF recs = {} THEN <<>>
    ELSE LET m == CHOOSE r \in recs : \A q \in recs :
                     \/ VecSim(r.content) > VecSim(q.content)
                     \/ (VecSim(r.content) = VecSim(q.content) /\ r.id <= q.id)
         IN <<m>> \o by_similarity(recs \ {m})

retrieve(coll, filter, k) ==
    LET hits == Take(by_similarity({r \in coll : where_holds(r.metadata, filter)}), k)
    IN [j \in 1..Len(hits) |-> Document(<<"", hits[j].content>>, hits[j].metadata, None)]

\* a vector recall without its try block: the retriever's exception escapes
mutant_vector_stage(coll, filter, k, health) ==
    IF health = "ok" THEN [docs |-> retrieve(coll, filter, k), exc |-> "none"]
    ELSE IF health = "raise" THEN [docs |-> <<>>, exc |-> "vector"]
    ELSE [docs |-> <<>>, exc |-> "none"]

\* chat_stream 3.2: vector recall; no store, or an exception of the retriever,
\* leaves vector_docs empty
vector_stage(coll, filter, k, health) ==
    IF health = "ok" THEN [docs |-> retrieve(coll, filter, k), exc |-> "none"]
    ELSE [docs |-> <<>>, exc |-> "none"]

\* chat_stream 3.3: lexical recall over the project scope
bm25_stage(models, datas, cfg, health) ==
    IF health # "none" /\ Truthy(cfg.project) /\ ~IsAll(cfg.project)
    THEN IF health = "raise" THEN [docs |-> <<>>, exc |-> "none"]
         ELSE LET raw == search(models, datas, cfg.project.val, Bm25TopK)
              IN [docs |-> [j \in 1..Len(raw) |->
                              Document(<<"", raw[j].content>>, raw[j].metadata, None)],
                  exc |-> "none"]
    ELSE [docs |-> <<>>, exc |-> "none"]

\* a key that ignores the chunk id
mutant_dedup_key(d) == d.page_content

\* chat_stream 3.4: the dedup key, the chunk id when present, else the content
dedup_key(d) == IF d.metadata.chunk_id # NoId THEN d.metadata.chunk_id ELSE d.page_content

\* a tag that calls every kept document lexical
mutant_Tagged(d, method) == [d EXCEPT !.metadata.source_method = "BM25"]

\* d.metadata["source_method"] = "BM25" if d in bm25_docs else "Vector"
Tagged(d, method) == [d EXCEPT !.metadata.source_method = method]

\* chat_stream 3.4: one pass over bm25_docs + vector_docs; a kept document is tagged
\* in place, so `d in bm25_docs` compares with the lexical documents as tagged so far
RECURSIVE fuse(_, _, _, _, _)
fuse(bm, vec, j, unique_ids, initial_docs) ==
    IF j > Len(bm) + Len(vec) THEN [unique_ids |-> unique_ids, initial_docs |-> initial_docs]
    ELSE LET d == IF j <= Len(bm) THEN bm[j] ELSE vec[j - Len(bm)]
             method == IF \E k \in 1..Len(bm) : bm[k] = d THEN "BM25" ELSE "Vector"
         IN IF dedup_key(d) \in unique_ids
            THEN fuse(bm, vec, j + 1, unique_ids, initial_docs)
            ELSE fuse(IF j <= Len(bm) THEN [bm EXCEPT ![j] = Tagged(d, method)] ELSE bm,
                      vec, j + 1, unique_ids \cup {dedup_key(d)},
                      Append(initial_docs, Tagged(d, method)))

\* chat_stream 4: the prev and next nodes of the rows of one window, row by row
RECURSIVE row_nodes(_)
row_nodes(rows) ==
    IF rows = <<>> THEN <<>>
    ELSE SelectSeq(<<Head(rows).prev, Head(rows).next>>, LAMBDA n : n # NullNode)
         \o row_nodes(Tail(rows))

RECURSIVE window_nodes(_, _, _)
window_nodes(nodes, edges, docs) ==
    IF docs = <<>> THEN <<>>
    ELSE (IF Head(docs).metadata.chunk_id # NoId
          THEN row_nodes(get_context_window(nodes, edges, Head(docs).metadata.chunk_id, GraphHops))
          ELSE <<>>)
         \o window_nodes(nodes, edges, Tail(docs))

GraphDocument(node) ==
    [page_content |-> <<"[graph] ", node.text>>,
     metadata |-> [source_file |-> None, type |-> None, chunk_id |-> node.id,
                   project_name |-> None, category |-> None, source_method |-> "Graph"]]

RECURSIVE expand(_, _, _)
expand(found, seen_graph_ids, expanded_docs) ==
    IF found = <<>> THEN expanded_docs
    ELSE IF Head(found).id \in seen_graph_ids
         THEN expand(Tail(found), seen_graph_ids, expanded_docs)
         ELSE expand(Tail(found), seen_graph_ids \cup {Head(found).id},
                     Append(expanded_docs, GraphDocument(Head(found))))

\* an expansion that puts the neighbours in front of the recalled candidates
mutant_graph_stage(nodes, edges, fused, health) ==
    IF fused.initial_docs # <<>> /\ health # "none"
    THEN IF health = "raise" THEN [docs |-> fused.initial_docs, status |-> TRUE, exc |-> "none"]
         ELSE [docs |-> expand(window_nodes(nodes, edges, Take(fused.initial_docs, GraphTopN)),
                               fused.unique_ids, <<>>)
                        \o fused.initial_docs,
               status |-> TRUE, exc |-> "none"]
    ELSE [docs |-> fused.initial_docs, status |-> FALSE, exc |-> "none"]

\* chat_stream 4: expansion of the first GraphTopN documents; an exception in the
\* traversal is caught and leaves initial_docs as it was
graph_stage(nodes, edges, fused, health) ==
    IF fused.initial_docs # <<>> /\ health # "none"
    THEN IF health = "raise" THEN [docs |-> fused.initial_docs, status |-> TRUE, exc |-> "none"]
         ELSE [docs |-> fused.initial_docs \o
                        expand(window_nodes(nodes, edges, Take(fused.initial_docs, GraphTopN)),
                               fused.unique_ids, <<>>),
               status |-> TRUE, exc |-> "none"]
    ELSE [docs |-> fused.initial_docs, status |-> FALSE, exc |-> "none"]

\* the relevance the reranking model gives a passage (a fixed function)
RerankScore(content) == (content[2] * 3 + (IF content[1] = "" THEN 0 ELSE 1)) % 5

\* RerankService.rerank(query, docs, top_k): the top_k documents by model score,
\* equal scores in input order
RECURSIVE by_rerank_score(_, _)
by_rerank_score(docs, left) ==
    IF left = {} THEN <<>>
    ELSE LET m == CHOOSE i \in left : \A j \in left :
                     \/ RerankScore(docs[i].page_content) > RerankScore(docs[j].page_content)
                     \/ (RerankScore(docs[i].page_content) = RerankScore(docs[j].page_content)
                         /\ i <= j)
         IN <<docs[m]>> \o by_rerank_score(docs, left \ {m})
rerank(docs, top_k) == Take(by_rerank_score(docs, 1..Len(docs)), top_k)

\* a fallback that keeps every candidate when there is no reranker
mutant_rerank_stage(initial_docs, top_k, health) ==
    IF initial_docs = <<>> THEN [docs |-> <<>>, status |-> FALSE, exc |-> "none"]
    ELSE IF health = "none" THEN [docs |-> initial_docs, status |-> FALSE, exc |-> "none"]
    ELSE IF health = "raise" THEN [docs |-> <<>>, status |-> TRUE, exc |-> "rerank"]
    ELSE [docs |-> rerank(initial_docs, top_k), status |-> TRUE, exc |-> "none"]

\* chat_stream 5: rerank when a reranker exists, else truncate; the call to the
\* reranker stands outside any try block
rerank_stage(initial_docs, top_k, health) ==
    IF initial_docs = <<>> THEN [docs |-> <<>>, status |-> FALSE, exc |-> "none"]
    ELSE IF health = "none" THEN [docs |-> Take(initial_docs, top_k), status |-> FALSE, exc |-> "none"]
    ELSE IF health = "raise" THEN [docs |-> <<>>, status |-> TRUE, exc |-> "rerank"]
    ELSE [docs |-> rerank(initial_docs, top_k), status |-> TRUE, exc |-> "none"]

\* rewrite_query: the rewritten query, or the query itself when the chain raises
rewrite_query(health) == IF health = "ok" THEN "rewritten" ELSE "original"

Event(type, data) == [type |-> type, data |-> data]

\* a context step that formats the (empty) list in every case
mutant_context_of(initial_docs) == "context"

\* chat_stream 5: the context string, the disclaimer when nothing was recalled
context_of(initial_docs) == IF initial_docs = <<>> THEN "disclaimer" ELSE "context"

\* _detect_excel_task(final_docs): some final document is a table of an Excel file
detect_excel_task(final_docs) ==
    \E k \in 1..Len(final_docs) :
        /\ IsExcel(final_docs[k].metadata.source_file)
        /\ final_docs[k].metadata.type \in {"table", "summary", "sheet"}

\* chat_stream 7: the sources event and the streamed answer; an exception of the
\* language model becomes a text event
generation_events(final_docs, context, health) ==
    <<Event("sources", final_docs)>>
    \o (IF health = "ok" THEN <<Event("text", context)>>
        ELSE <<Event("text", "llm_error")>>)

\* chat_stream 6-7: with an Excel task the agent's answer, then the first
\* ExcelSources documents as sources, and the stream ends; an exception of the
\* agent becomes a text event and the standard generation follows
answer_events(final_docs, context, env) ==
    IF detect_excel_task(final_docs)
    THEN <<Event("status", "excel")>>
         \o (IF env.excel = "ok"
             THEN <<Event("text", "agent_result"),
                    Event("sources", Take(final_docs, ExcelSources))>>
             ELSE <<Event("text", "agent_error")>>
                  \o generation_events(final_docs, context, env.llm))
    ELSE generation_events(final_docs, context, env.llm)

\* the first exception that leaves a stage uncaught
FirstExc(stages) ==
    IF \E k \in 1..Len(stages) : stages[k] # "none"
    THEN stages[CHOOSE k \in 1..Len(stages) :
                    stages[k] # "none" /\ \A j \in 1..(k - 1) : stages[j] = "none"]
    ELSE "none"

\* DeepSeekRAGService.chat_stream(query, history, filter_config=cfg), standard path;
\* env names, per component, "ok", "none" (not constructed) or "raise"
chat_result(coll, nodes, edges, models, datas, cfg, env) ==
    LET optimized_query == rewrite_query(env.rewrite)
        filter == build_filter(cfg)
        vec == vector_stage(coll, filter, cfg.top_k * FetchFactor, env.vector)
        bm == bm25_stage(models, datas, cfg, env.bm25)
        recallExc == FirstExc(<<vec.exc, bm.exc>>)
        fused == fuse(bm.docs, vec.docs, 1, {}, <<>>)
        graph == graph_stage(nodes, edges, fused, env.graph)
        ranked == rerank_stage(graph.docs, cfg.top_k, env.rerank)
        exc == FirstExc(<<vec.exc, bm.exc, graph.exc, ranked.exc>>)
        context == context_of(graph.docs)
        events == <<Event("status", "rewrite"), Event("status", "search")>>
                  \o (IF recallExc = "none" /\ graph.status
                      THEN <<Event("status", "graph")>> ELSE <<>>)
                  \o (IF FirstExc(<<vec.exc, bm.exc, graph.exc>>) = "none" /\ ranked.status
                      THEN <<Event("status", "rerank")>> ELSE <<>>)
                  \o (IF exc = "none" THEN answer_events(ranked.docs, context, env) ELSE <<>>)
    IN [optimized_query |-> optimized_query, filter |-> filter,
        vector_docs |-> vec.docs, bm25_docs |-> bm.docs,
        fused |-> IF recallExc = "none" THEN fused.initial_docs ELSE <<>>,
        initial_docs |-> IF FirstExc(<<vec.exc, bm.exc, graph.exc>>) = "none" THEN graph.docs ELSE <<>>,
        final_docs |-> IF exc = "none" THEN ranked.docs ELSE <<>>,
        events |-> events, exc |-> exc]

\* a call that leaves the process: a model, a store or the index files
Call(name) == [type |-> "call", data |-> name]

\* chat_stream 4: one get_context_window call per document with a chunk id among
\* the first GraphTopN; an exception of the first call ends the traversal
graph_calls(docs, health) ==
    LET with_id == SelectSeq(docs, LAMBDA d : d.metadata.chunk_id # NoId)
    IN IF health = "raise" THEN Take(<<Call("graph")>>, Len(with_id))
       ELSE [k \in 1..Len(with_id) |-> Call("graph")]

\* chat_stream 6-7: _run_pandas_agent follows the Excel status event, and
\* chain.stream follows the sources event of the standard generation
RECURSIVE answer_steps(_)
answer_steps(events) ==
    IF events = <<>> THEN <<>>
    ELSE <<Head(events)>>
         \o (IF Head(events) = Event("status", "excel") THEN <<Call("agent")>>
             ELSE IF Head(events).type = "sources" /\ Tail(events) # <<>>
             THEN <<Call("generation")>>
             ELSE <<>>)
         \o answer_steps(Tail(events))

\* chat_stream, standard path: the yields and the external calls of one run in
\* program order
stream_steps(cfg, env, res) ==
    <<Event("status", "rewrite"), Call("rewrite"), Event("status", "search")>>
    \o (IF env.vector # "none" THEN <<Call("vector")>> ELSE <<>>)
    \o (IF env.bm25 # "none" /\ Truthy(cfg.project) /\ ~IsAll(cfg.project)
        THEN <<Call("lexical")>> ELSE <<>>)
    \o (IF res.fused # <<>> /\ env.graph # "none"
        THEN <<Event("status", "graph")>> \o graph_calls(Take(res.fused, GraphTopN), env.graph)
        ELSE <<>>)
    \o (IF res.initial_docs # <<>> /\ env.rerank # "none"
        THEN <<Event("status", "rerank"), Call("rerank")>> ELSE <<>>)
    \o (IF res.exc = "none"
        THEN answer_steps(answer_events(res.final_docs, context_of(res.initial_docs), env))
        ELSE <<>>)

\* ======================================================= retrieval/reranker.py
\* CrossEncoder.predict on one (query, passage) pair, for the one query of the model
PredictScore(text) == (text * 2) % 3

\* a variant whose sort key still counts the upstream score of the candidate
mutant_rerank_score(candidate) == candidate.score + PredictScore(candidate.content)

\* the model score of a candidate: the passage text is all the model sees
rerank_score(candidate) == PredictScore(candidate.content)

\* item['score'] = float(score), on every item of the list
with_rerank_scores(items) ==
    [i \in 1..Len(items) |-> [items[i] EXCEPT !.score = rerank_score(items[i])]]

\* list.sort(key=lambda x: x['score'], reverse=True): stable, equal scores keep
\* their order
RECURSIVE sort_by_score(_, _)
sort_by_score(items, left) ==
    IF left = {} THEN <<>>
    ELSE LET m == CHOOSE i \in left : \A j \in left :
                     \/ items[i].score > items[j].score
                     \/ (items[i].score = items[j].score /\ i <= j)
         IN <<items[m]>> \o sort_by_score(items, left \ {m})

\* BGEReranker.rank(query, initial_results, top_k): scored copies of the items,
\* sorted, cut to top_k; initial_results is the caller's list after the call
rank(initial_results, top_k) ==
    [ranked |-> IF initial_results = <<>> THEN <<>>
                ELSE Take(sort_by_score(with_rerank_scores(initial_results),
                                        1..Len(initial_results)), top_k),
     initial_results |-> initial_results]

\* ======================================================= retrieval/search_engine.py
\* max(scores) if scores.any() else 1.0
max_bm25(candidates) ==
    LET scores == {LexScore(candidates[i].content) : i \in 1..Len(candidates)}
    IN IF scores = {0} THEN 1 ELSE CHOOSE m \in scores : \A x \in scores : x <= m

\* TenderRetriever._apply_bm25_score: score += 0.3 * bm25 / max_bm25 on every
\* candidate, then the list is sorted in place by score
apply_bm25_score(candidates) ==
    IF candidates = <<>> THEN <<>>
    ELSE LET scored == [i \in 1..Len(candidates) |->
                 [candidates[i] EXCEPT !.score =
                     @ + (HybridTenths * (ScoreUnit \div 10) * LexScore(candidates[i].content))
                             \div max_bm25(candidates)]]
         IN sort_by_score(scored, 1..Len(scored))

\* TenderRetriever.search 5-6: with a reranker the scores of the candidates are
\* overwritten by the model's and the list is sorted in place; the first top_k
\* are returned
search_rerank(candidates, reranker, top_k) ==
    LET sorted == IF reranker
                  THEN sort_by_score(with_rerank_scores(candidates), 1..Len(candidates))
                  ELSE candidates
    IN [candidates |-> sorted, results |-> Take(sorted, top_k)]

\* TenderRetriever.search 4-6 on the recalled candidates
retriever_search(candidates, use_hybrid, reranker, top_k) ==
    search_rerank(IF use_hybrid THEN apply_bm25_score(candidates) ELSE candidates,
                  reranker, top_k)

\* ======================================================= actions: ingestion
IngestInit ==
    /\ collection = {}
    /\ uuidCtr = 0
    /\ ingests = 0
    /\ docNodes = {}
    /\ chunkNodes = <<>>
    /\ containsE = {}
    /\ nextE = {}
    /\ processed = {}
    /\ registry = {}
    /\ lastRun = [status |-> "none"]
    /\ origin = [t \in {} |-> {}]

Run(name, project, body, force, status) ==
    [file |-> name, project |-> project, body |-> body, force |-> force, status |-> status]

noteOrigin(org, cleaned, project) ==
    LET ts == {cleaned[k].content : k \in 1..Len(cleaned)}
    IN [t \in DOMAIN org \cup ts |->
          (IF t \in DOMAIN org THEN org[t] ELSE {}) \cup (IF t \in ts THEN {project} ELSE {})]

\* ETLPipeline.process_file(path, force_update, original_filename=name,
\*                          user_project=project, user_tag=category)
\* parseOk: the parser returned; vectorOk: add_chunks returned; graphOk: the graph
\* manager exists and its transaction committed; checkOk, markOk: the lookup and
\* the insert of DeduplicationService did not raise
process_file(name, project, category, body, force, parseOk, vectorOk, graphOk, checkOk, markOk) ==
    /\ ingests < MaxIngest
    /\ ingests' = ingests + 1
    /\ IF ~force /\ is_processed(body, checkOk)
       THEN /\ lastRun' = Run(name, project, body, force, "skipped")
            /\ UNCHANGED <<collection, uuidCtr, docNodes, chunkNodes, containsE, nextE,
                           processed, registry, origin>>
       ELSE LET chunks == parse_file(name, body, uuidCtr)
                cleaned == clean_chunks(chunks, 1, name, project, category)
            IN /\ registry' = registry \cup {project}
               /\ IF ~parseOk
                  THEN /\ lastRun' = Run(name, project, body, force, "error")
                       /\ UNCHANGED <<collection, uuidCtr, docNodes, chunkNodes, containsE,
                                      nextE, processed, origin>>
                  ELSE /\ uuidCtr' = uuidCtr + Len(chunks)
                       /\ IF cleaned = <<>>
                          THEN /\ lastRun' = Run(name, project, body, force, "warning")
                               /\ UNCHANGED <<collection, docNodes, chunkNodes, containsE,
                                              nextE, processed, origin>>
                          ELSE IF ~vectorOk
                          THEN /\ lastRun' = Run(name, project, body, force, "raised")
                               /\ UNCHANGED <<collection, docNodes, chunkNodes, containsE,
                                              nextE, processed, origin>>
                          ELSE /\ collection' = add_chunks(collection, cleaned)
                               /\ origin' = noteOrigin(origin, cleaned, project)
                               /\ IF graphOk
                                  THEN /\ docNodes' = create_chain_docs(docNodes, name, project)
                                       /\ chunkNodes' = create_chain_chunks(chunkNodes, name, cleaned)
                                       /\ containsE' = create_chain_contains(containsE, docNodes', name, cleaned)
                                       /\ nextE' = create_chain_next(nextE, name, cleaned)
                                  ELSE UNCHANGED <<docNodes, chunkNodes, containsE, nextE>>
                               /\ processed' = mark_as_processed(processed, body, markOk)
                               /\ lastRun' = Run(name, project, body, force, "success")

IngestNext ==
    \E name \in Files, project \in Projects, category \in Categories, body \in Bodies,
       force \in BOOLEAN, parseOk \in BOOLEAN, vectorOk \in BOOLEAN, graphOk \in BOOLEAN :
        /\ process_file(name, project, category, body, force, parseOk, vectorOk, graphOk, TRUE, TRUE)
        /\ UNCHANGED <<bm25Vars, chat>>

Idle == [pc |-> "idle"]

RestInit ==
    /\ modelFile = <<>>
    /\ dataFile = <<>>
    /\ updates = 0
    /\ history = <<>>
    /\ chat = Idle


\* GraphManager.create_document_structure(filename, project, chunks): one write
\* transaction; lastRun keeps the call, the graph it found, and whether the call
\* before it had the same arguments
Graph == <<docNodes, chunkNodes, containsE, nextE>>
GraphRun(filename, project, chunks) ==
    [status |-> "graph", file |-> filename, project |-> project, chunks |-> chunks]
create_document_structure(filename, project, chunks) ==
    /\ ingests < MaxIngest
    /\ ingests' = ingests + 1
    /\ docNodes' = create_chain_docs(docNodes, filename, project)
    /\ chunkNodes' = create_chain_chunks(chunkNodes, filename, chunks)
    /\ containsE' = create_chain_contains(containsE, docNodes', filename, chunks)
    /\ nextE' = create_chain_next(nextE, filename, chunks)
    /\ lastRun' = [call |-> GraphRun(filename, project, chunks),
                   status |-> "graph",
                   again |-> (lastRun.status = "graph"
                              /\ lastRun.call = GraphRun(filename, project, chunks)),
                   before |-> Graph]
    /\ UNCHANGED <<collection, uuidCtr, processed, registry, origin>>

\* the graph_data lists process_file builds from the cleaned chunks of a file
GraphChunk(text) == [content |-> text]
GraphChunkLists ==
    {<<GraphChunk(1), GraphChunk(2), GraphChunk(3), GraphChunk(4)>>,
     <<GraphChunk(5), GraphChunk(6)>>,
     <<GraphChunk(1), GraphChunk(2)>>}

\* ======================================================= actions: lexical index
\* BM25Persistence.update_project_index(project_name, new_chunks)
update_project_index(project_name, new_chunks) ==
    LET safe == safe_name(project_name)
        existing_data == IF safe \in DOMAIN dataFile THEN dataFile[safe] ELSE <<>>
        full_data == merge_corpus(existing_data, new_chunks)
    IN /\ updates' = updates + 1
       /\ history' = Append(history, <<project_name, new_chunks>>)
       /\ IF full_data = <<>>
          THEN UNCHANGED <<modelFile, dataFile>>
          ELSE /\ modelFile' = [k \in DOMAIN modelFile \cup {safe} |->
                                  IF k = safe THEN build_index(full_data) ELSE modelFile[k]]
               /\ dataFile' = [k \in DOMAIN dataFile \cup {safe} |->
                                  IF k = safe THEN full_data ELSE dataFile[k]]

\* update_project_index whose process dies while it writes: at "model" the model
\* file is open and empty, at "model_written" the model file is complete and the
\* data file untouched, at "data" the data file is open and empty
update_killed(project_name, new_chunks, at) ==
    LET safe == safe_name(project_name)
        existing_data == IF safe \in DOMAIN dataFile THEN dataFile[safe] ELSE <<>>
        full_data == merge_corpus(existing_data, new_chunks)
    IN /\ updates' = updates + 1
       /\ history' = Append(history, <<project_name, new_chunks>>)
       /\ IF full_data = <<>>
          THEN UNCHANGED <<modelFile, dataFile>>
          ELSE /\ modelFile' = [k \in DOMAIN modelFile \cup {safe} |->
                                  IF k # safe THEN modelFile[k]
                                  ELSE IF at = "model" THEN <<>> ELSE build_index(full_data)]
               /\ IF at = "data"
                  THEN dataFile' = [k \in DOMAIN dataFile \cup {safe} |->
                                       IF k = safe THEN <<>> ELSE dataFile[k]]
                  ELSE UNCHANGED dataFile

\* BM25Persistence.search(query, projects, top_k), whole
lexical_search(projects, top_k) ==
    /\ chat.pc = "idle"
    /\ chat' = [pc |-> "lexical", projects |-> projects, top_k |-> top_k,
                results |-> search(modelFile, dataFile, projects, top_k)]
    /\ UNCHANGED bm25Vars

\* -------- update_project_index and search as the file operations they are made
\* of, for two threads on one index directory. chat holds both calls in flight.
IdleWriter == [pc |-> "idle", safe |-> <<>>, full_data |-> <<>>]
IdleReader == [pc |-> "idle", safe |-> <<>>, bm25 |-> <<>>, corpus_data |-> <<>>,
               outcome |-> "none", results |-> <<>>]
IO == IF chat.pc = "io" THEN chat
      ELSE [pc |-> "io", writer |-> IdleWriter, reader |-> IdleReader]
InFlight == chat.pc \in {"idle", "io"}

\* open(path, 'wb') has truncated the file and pickle.dump has not finished
Truncated(file, safe) == IO.writer.pc = file /\ IO.writer.safe = safe
\* os.path.exists(path)
Exists(file, content, safe) == safe \in DOMAIN content \/ Truncated(file, safe)

\* update_project_index 1-3: load the corpus, merge, rebuild the index in memory
update_load(project_name, new_chunks) ==
    LET safe == safe_name(project_name)
        existing_data == IF safe \in DOMAIN dataFile THEN dataFile[safe] ELSE <<>>
        full_data == merge_corpus(existing_data, new_chunks)
    IN /\ InFlight
       /\ IO.writer.pc = "idle"
       /\ updates' = updates + 1
       /\ history' = Append(history, <<project_name, new_chunks>>)
       /\ chat' = [IO EXCEPT !.writer =
                      IF full_data = <<>> THEN IdleWriter
                      ELSE [pc |-> "built", safe |-> safe, full_data |-> full_data]]
       /\ UNCHANGED <<modelFile, dataFile>>

\* update_project_index 4: open(model_path, 'wb')
update_open_model ==
    /\ InFlight
    /\ IO.writer.pc = "built"
    /\ chat' = [IO EXCEPT !.writer.pc = "model"]
    /\ UNCHANGED bm25Vars

\* pickle.dump(bm25, f) and the close of the model file
update_dump_model ==
    /\ InFlight
    /\ IO.writer.pc = "model"
    /\ modelFile' = [k \in DOMAIN modelFile \cup {IO.writer.safe} |->
                        IF k = IO.writer.safe THEN build_index(IO.writer.full_data)
                        ELSE modelFile[k]]
    /\ chat' = [IO EXCEPT !.writer.pc = "model_written"]
    /\ UNCHANGED <<dataFile, updates, history>>

\* open(data_path, 'wb')
update_open_data ==
    /\ InFlight
    /\ IO.writer.pc = "model_written"
    /\ chat' = [IO EXCEPT !.writer.pc = "data"]
    /\ UNCHANGED bm25Vars

\* pickle.dump(full_data, f), the close of the data file, and the return
update_dump_data ==
    /\ InFlight
    /\ IO.writer.pc = "data"
    /\ dataFile' = [k \in DOMAIN dataFile \cup {IO.writer.safe} |->
                       IF k = IO.writer.safe THEN IO.writer.full_data ELSE dataFile[k]]
    /\ chat' = [IO EXCEPT !.writer = IdleWriter]
    /\ UNCHANGED <<modelFile, updates, history>>

\* search on one project: os.path.exists(model_path)
search_exists(proj) ==
    /\ InFlight
    /\ IO.reader.pc = "idle"
    /\ chat' = [IO EXCEPT !.reader =
                   IF Exists("model", modelFile, safe_name(proj))
                   THEN [IdleReader EXCEPT !.pc = "exists", !.safe = safe_name(proj)]
                   ELSE [IdleReader EXCEPT !.pc = "done", !.safe = safe_name(proj),
                                           !.outcome = "absent"]]
    /\ UNCHANGED bm25Vars

\* pickle.load of the model file; a truncated file raises, which search catches
search_load_model ==
    /\ InFlight
    /\ IO.reader.pc = "exists"
    /\ chat' = [IO EXCEPT !.reader =
                   IF Truncated("model", IO.reader.safe)
                   THEN [@ EXCEPT !.pc = "done", !.outcome = "partial"]
                   ELSE [@ EXCEPT !.pc = "model_loaded", !.bm25 = modelFile[IO.reader.safe]]]
    /\ UNCHANGED bm25Vars

\* pickle.load of the data file and get_top_n; a missing or truncated file and
\* the size assertion of get_top_n raise, which search catches
search_load_data(top_k) ==
    /\ InFlight
    /\ IO.reader.pc = "model_loaded"
    /\ chat' = [IO EXCEPT !.reader =
                   IF ~Exists("data", dataFile, IO.reader.safe)
                   THEN [@ EXCEPT !.pc = "done", !.outcome = "missing"]
                   ELSE IF Truncated("data", IO.reader.safe)
                   THEN [@ EXCEPT !.pc = "done", !.outcome = "partial"]
                   ELSE [@ EXCEPT !.pc = "done", !.outcome = "pair",
                                  !.corpus_data = dataFile[IO.reader.safe],
                                  !.results =
                                      IF Len(dataFile[IO.reader.safe]) # Len(IO.reader.bm25)
                                      THEN <<>>
                                      ELSE get_top_n(IO.reader.bm25,
                                                     dataFile[IO.reader.safe], top_k)]]
    /\ UNCHANGED bm25Vars

\* the return of search
search_return ==
    /\ InFlight
    /\ IO.reader.pc = "done"
    /\ chat' = [IO EXCEPT !.reader = IdleReader]
    /\ UNCHANGED bm25Vars

\* the items the ingestion side hands to the lexical index for one document: the
\* chunks it stored for that file and project, in store order
RECURSIVE by_store_id(_)
by_store_id(recs) ==
    IF recs = {} THEN <<>>
    ELSE LET m == CHOOSE r \in recs : \A q \in recs : r.id <= q.id
         IN <<[content |-> m.content, metadata |-> m.metadata]>> \o by_store_id(recs \ {m})
StoredChunks(name, project) ==
    by_store_id({r \in collection :
                    r.metadata.source_file = name /\ r.metadata.project_name = project})

\* ======================================================= actions: retrieval
\* one chat_stream call, consumed to its end
chat_stream(cfg, env) ==
    /\ chat.pc = "idle"
    /\ chat' = [pc |-> "done", cfg |-> cfg, env |-> env,
                res |-> chat_result(collection, chunkNodes, nextE, modelFile, dataFile, cfg, env)]

\* the caller drops the finished generator
close ==
    /\ chat.pc = "done"
    /\ chat' = Idle

Config(project, type, files, top_k) ==
    [project |-> project, type |-> type, files |-> files, top_k |-> top_k]
Env(vector, bm25, graph, rr, llm, rewrite) ==
    [vector |-> vector, bm25 |-> bm25, graph |-> graph, rerank |-> rr, llm |-> llm,
     rewrite |-> rewrite, excel |-> "ok"]

Health == {"ok", "none", "raise"}
Configs ==
    {Config(p, t, f, k) :
        p \in {ProjStr(AllProjects), ProjStr("X"), ProjList(<<"X", "Y">>)},
        t \in {AllTypes, "tech"},
        f \in {<<>>, <<"a.docx">>},
        k \in {1, 2}}

\* ======================================================= actions: TenderRetriever
\* a recalled candidate of TenderRetriever.search: id, content and score
RankCandidate(passage, score) == [id |-> passage, content |-> passage, score |-> score]
Passages == 1..4
UpstreamScores == {300, 400}
RECURSIVE ListsOf(_)
ListsOf(n) ==
    IF n = 0 THEN {<<>>}
    ELSE ListsOf(n - 1) \cup
         {Append(l, RankCandidate(p, u)) :
             l \in {x \in ListsOf(n - 1) : Len(x) = n - 1},
             p \in Passages, u \in UpstreamScores}
PassagesOf(l) == {l[i].id : i \in 1..Len(l)}
\* candidate lists without a repeated passage
RankLists == {l \in ListsOf(MaxCandidates) : Cardinality(PassagesOf(l)) = Len(l)}
\* collection.query returns the nearest first: scores do not increase
RecalledLists == {l \in RankLists : \A i \in 1..Len(l) - 1 : l[i].score >= l[i + 1].score}

\* TenderRetriever.search after the recall: the candidates list as the call
\* leaves it, and the returned list
search_step(candidates, use_hybrid, reranker, top_k) ==
    /\ chat.pc = "idle"
    /\ chat' = [pc |-> "searched", recalled |-> candidates, use_hybrid |-> use_hybrid,
                reranker |-> reranker, top_k |-> top_k,
                res |-> retriever_search(candidates, use_hybrid, reranker, top_k)]

\* two calls of BGEReranker.rank and of the rerank step of search, on two lists
\* of the same passages
rank_step(a, b, top_k) ==
    /\ chat.pc = "idle"
    /\ chat' = [pc |-> "ranked", a |-> a, b |-> b, top_k |-> top_k,
                rank_a |-> rank(a, top_k), rank_b |-> rank(b, top_k),
                search_a |-> search_rerank(a, TRUE, top_k),
                search_b |-> search_rerank(b, TRUE, top_k)]

\* ======================================================= actions: writer agent
\* _run_writer_agent_stream from the outline on, for one cache key: the reference
\* document, the target title and the chapter count are fixed, the outline is
\* what generate_outline returns in each run
Titles == {"A", "B", "C"}
RECURSIVE OutlinesOf(_)
OutlinesOf(n) ==
    IF n = 0 THEN {<<>>}
    ELSE {Append(l, t) : l \in OutlinesOf(n - 1), t \in Titles}
Outlines == OutlinesOf(TocLen)

\* the text write_chapter returns for a title in a run
Chapter(title, run) == <<title, run>>

\* the cache file: absent, or the JSON object last dumped
NoCache == [exists |-> FALSE, data |-> <<>>]

WriterRests == chat.pc \in {"idle", "finished", "closed"}
RunsSoFar == IF chat.pc = "idle" THEN 0 ELSE chat.run
CacheSoFar == IF chat.pc = "idle" THEN NoCache ELSE chat.cache

Count(seq, x) == Cardinality({k \in 1..Len(seq) : seq[k] = x})

\* the pool runs the submitted tasks in submission order on MaxWorkers threads:
\* task i has started once fewer than MaxWorkers earlier tasks are unfinished
Started(i, pending) == Cardinality({j \in pending : j < i}) < MaxWorkers

\* generated_data[title] = content
Put(data, title, content) ==
    [t \in DOMAIN data \cup {title} |-> IF t = title THEN content ELSE data[t]]

\* the "while next_idx_to_display < len(chapters_to_write)" loop: preview events
\* for the titles at next_idx_to_display onward, as long as their text is buffered
RECURSIVE display(_, _, _)
display(next_idx_to_display, chapters_to_write, results_buffer) ==
    IF next_idx_to_display < Len(chapters_to_write)
       /\ chapters_to_write[next_idx_to_display + 1] \in DOMAIN results_buffer
    THEN LET rest == display(next_idx_to_display + 1, chapters_to_write, results_buffer)
         IN [next |-> rest.next,
             events |-> <<Event("text", <<"preview", chapters_to_write[next_idx_to_display + 1]>>)>>
                        \o rest.events]
    ELSE [next |-> next_idx_to_display, events |-> <<>>]

\* the run up to the submission of the chapters: outline, cache load,
\* chapters_to_write, one write_chapter task per entry of chapters_to_write
writer_start(new_toc) ==
    /\ WriterRests
    /\ RunsSoFar < MaxRuns
    /\ LET generated_data == IF CacheSoFar.exists THEN CacheSoFar.data ELSE <<>>
           chapters_to_write == SelectSeq(new_toc, LAMBDA t : t \notin DOMAIN generated_data)
       IN chat' = [pc |-> "writing", run |-> RunsSoFar + 1, cache |-> CacheSoFar,
                   recovered |-> generated_data,
                   new_toc |-> new_toc, generated_data |-> generated_data,
                   chapters_to_write |-> chapters_to_write,
                   invoked |-> [t \in Titles |-> Count(chapters_to_write, t)],
                   pending |-> 1..Len(chapters_to_write),
                   succeeded |-> {},
                   results_buffer |-> <<>>, next_idx_to_display |-> 0, completed_count |-> 0,
                   events |-> <<Event("toc", new_toc)>>
                              \o (IF CacheSoFar.exists
                                  THEN <<Event("text", <<"recovered", Cardinality(DOMAIN generated_data)>>)>>
                                  ELSE <<>>)
                              \o (IF chapters_to_write = <<>>
                                  THEN <<Event("text", <<"all_done">>)>>
                                  ELSE <<Event("status", <<"writing", Len(chapters_to_write)>>)>>)]

\* one iteration of the as_completed loop on the future of task i
writer_complete(i, ok) ==
    /\ chat.pc = "writing"
    /\ i \in chat.pending
    /\ Started(i, chat.pending)
    /\ LET title == chat.chapters_to_write[i]
           content == Chapter(title, chat.run)
           results_buffer == Put(chat.results_buffer, title, content)
           generated_data == Put(chat.generated_data, title, content)
           shown == display(chat.next_idx_to_display, chat.chapters_to_write, results_buffer)
       IN chat' = IF ok
                  THEN [chat EXCEPT !.pending = @ \ {i},
                                    !.succeeded = @ \cup {i},
                                    !.results_buffer = results_buffer,
                                    !.generated_data = generated_data,
                                    !.completed_count = @ + 1,
                                    !.cache = [exists |-> TRUE, data |-> generated_data],
                                    !.next_idx_to_display = shown.next,
                                    !.events = @ \o <<Event("status", <<"progress", chat.completed_count + 1>>)>>
                                                 \o shown.events]
                  ELSE [chat EXCEPT !.pending = @ \ {i},
                                    !.events = Append(@, Event("text", <<"failed", title>>))]

\* the consumer drops the generator while it is suspended at the progress status
\* of task i: the text is in generated_data, the cache file is not written
writer_close_at_status(i) ==
    /\ chat.pc = "writing"
    /\ i \in chat.pending
    /\ Started(i, chat.pending)
    /\ chat' = [chat EXCEPT !.pc = "closed",
                            !.pending = @ \ {i},
                            !.succeeded = @ \cup {i},
                            !.generated_data = Put(@, chat.chapters_to_write[i],
                                                   Chapter(chat.chapters_to_write[i], chat.run)),
                            !.completed_count = @ + 1,
                            !.events = Append(@, Event("status", <<"progress", chat.completed_count + 1>>))]

\* the consumer drops the generator while it is suspended at another yield of
\* the loop
writer_close ==
    /\ chat.pc = "writing"
    /\ chat.pending # {}
    /\ chat' = [chat EXCEPT !.pc = "closed"]

\* after the loop: export and the final events
writer_finish ==
    /\ chat.pc = "writing"
    /\ chat.pending = {}
    /\ chat' = [chat EXCEPT !.pc = "finished",
                            !.events = @ \o <<Event("status", "export"),
                                              Event("text", <<"final_msg">>),
                                              Event("file", "output_path")>>]

\* ---------------------------------------------------------------- Spec
\* ingestion, the lexical feed and retrieval over what was ingested, with every
\* recall source and the language model in service
Envs == {Env("ok", "ok", g, r, "ok", "ok") : g \in Health, r \in {"none", "ok"}}

Init == IngestInit /\ RestInit

Next ==
    \/ \E name \in Files, project \in Projects, body \in Bodies, graphOk \in BOOLEAN :
          /\ chat.pc = "idle"
          /\ process_file(name, project, "tech", body, TRUE, TRUE, TRUE, graphOk, TRUE, TRUE)
          /\ UNCHANGED <<bm25Vars, chat>>
    \/ \E name \in Files, project \in Projects :
          /\ chat.pc = "idle"
          /\ updates < MaxFeeds
          /\ StoredChunks(name, project) # <<>>
          /\ update_project_index(project, StoredChunks(name, project))
          /\ UNCHANGED <<ingestVars, chat>>
    \/ \E cfg \in Configs, env \in Envs :
          /\ chat_stream(cfg, env)
          /\ UNCHANGED <<ingestVars, bm25Vars>>
    \/ /\ close
       /\ UNCHANGED <<ingestVars, bm25Vars>>

Spec == Init /\ [][Next]_vars

\* ---------------------------------------------------------------- SpecIngest
\* ingestion alone, with every outcome of the parser, the vector write and the
\* graph write; the processed-files table answers
SpecIngest == Init /\ [][IngestNext]_vars

\* ---------------------------------------------------------------- SpecGraph
\* sequences of create_document_structure calls: different documents, one file
\* name under two projects, a document written again with other chunks
GraphNext ==
    \E filename \in Files, project \in Projects, chunks \in GraphChunkLists :
        /\ create_document_structure(filename, project, chunks)
        /\ UNCHANGED <<bm25Vars, chat>>

SpecGraph == Init /\ [][GraphNext]_vars

\* ---------------------------------------------------------------- SpecDegrade
\* retrieval over the stores of one file name, with the recall sources, the graph
\* and the reranker in every state of health, and the query rewrite and the
\* language model failing on an otherwise healthy service; and TenderRetriever.search
\* with and without its reranker, on candidate lists drawn as inputs
AllEnvs ==
    {Env(v, b, g, r, "ok", "ok") : v \in Health, b \in Health, g \in Health, r \in Health}
    \cup {Env("ok", "ok", "ok", "ok", l, w) : l \in {"ok", "raise"}, w \in {"ok", "raise"}}
ScopeConfigs ==
    {Config(p, AllTypes, <<>>, k) :
        p \in {ProjStr(AllProjects), ProjStr("X"), ProjList(<<"X", "Y">>)}, k \in {1, 2}}

DegradeNext ==
    \/ \E project \in Projects, body \in Bodies, graphOk \in BOOLEAN :
          /\ chat.pc = "idle"
          /\ ingests < MaxLoads
          /\ process_file("a.docx", project, "tech", body, TRUE, TRUE, TRUE, graphOk, TRUE, TRUE)
          /\ UNCHANGED <<bm25Vars, chat>>
    \/ \E project \in Projects :
          /\ chat.pc = "idle"
          /\ updates < MaxFeeds
          /\ StoredChunks("a.docx", project) # <<>>
          /\ update_project_index(project, StoredChunks("a.docx", project))
          /\ UNCHANGED <<ingestVars, chat>>
    \/ \E cfg \in ScopeConfigs, env \in AllEnvs :
          /\ chat_stream(cfg, env)
          /\ UNCHANGED <<ingestVars, bm25Vars>>
    \/ /\ chat.pc = "idle"
       /\ ingests = 0
       /\ \E candidates \in RecalledLists, use_hybrid \in BOOLEAN, reranker \in BOOLEAN,
             top_k \in 1..MaxCandidates :
             /\ search_step(candidates, use_hybrid, reranker, top_k)
             /\ UNCHANGED <<ingestVars, bm25Vars>>
    \/ /\ chat.pc = "searched"
       /\ chat' = Idle
       /\ UNCHANGED <<ingestVars, bm25Vars>>
    \/ /\ close
       /\ UNCHANGED <<ingestVars, bm25Vars>>

SpecDegrade == Init /\ [][DegradeNext]_vars

\* ---------------------------------------------------------------- SpecRerank
\* the reranker on pairs of candidate lists that hold the same passages, in any
\* order and with any upstream scores
RerankNext ==
    \/ /\ chat.pc = "idle"
       /\ \E a \in RankLists, b \in RankLists, top_k \in 1..MaxCandidates :
             /\ PassagesOf(a) = PassagesOf(b)
             /\ rank_step(a, b, top_k)
             /\ UNCHANGED <<ingestVars, bm25Vars>>
    \/ /\ chat.pc = "ranked"
       /\ chat' = Idle
       /\ UNCHANGED <<ingestVars, bm25Vars>>

SpecRerank == Init /\ [][RerankNext]_vars

\* ---------------------------------------------------------------- SpecBM25
\* the lexical index alone, fed with arbitrary short chunk lists
LexProjects == {"X", "Y", "X/"}
Item(id, text) ==
    [content |-> text,
     metadata |-> [source_file |-> id[1], type |-> "text", chunk_id |-> id,
                   project_name |-> None, category |-> None]]
Items == {Item(Uuid5("a.docx", 0), 1), Item(Uuid5("a.docx", 0), 2),
          Item(Uuid5("a.docx", 1), 1), Item(NoId, 1), Item(NoId, 2)}
ChunkLists == {<<>>} \cup {<<x>> : x \in Items} \cup {<<x, y>> : x \in Items, y \in Items}

BM25Next ==
    \E project \in LexProjects, new_chunks \in ChunkLists :
        /\ updates < MaxUpdates
        /\ update_project_index(project, new_chunks)
        /\ UNCHANGED <<ingestVars, chat>>

SpecBM25 == Init /\ [][BM25Next]_vars

\* ---------------------------------------------------------------- SpecLex
\* searches over the index directory after complete and interrupted updates
\* the chunk lists of the updates
ConcLists == {<<Item(Uuid5("a.docx", 0), 1)>>, <<Item(Uuid5("a.docx", 0), 2)>>,
              <<Item(Uuid5("a.docx", 0), 1), Item(Uuid5("a.docx", 1), 1)>>}
SearchLists == {<<"X">>, <<"Y">>, <<"X", "Y">>, <<"Y", "X">>, <<AllProjects, "X">>}
KillPoints == {"model", "model_written", "data"}

LexNext ==
    \/ \E project \in Projects, new_chunks \in ConcLists :
          /\ chat.pc = "idle"
          /\ updates < MaxUpdates
          /\ update_project_index(project, new_chunks)
          /\ UNCHANGED <<ingestVars, chat>>
    \/ \E project \in Projects, new_chunks \in ConcLists, at \in KillPoints :
          /\ chat.pc = "idle"
          /\ updates < MaxUpdates
          /\ update_killed(project, new_chunks, at)
          /\ UNCHANGED <<ingestVars, chat>>
    \/ \E projects \in SearchLists, top_k \in {1, Bm25TopK} :
          /\ lexical_search(projects, top_k)
          /\ UNCHANGED ingestVars
    \/ /\ chat.pc = "lexical"
       /\ chat' = Idle
       /\ UNCHANGED <<ingestVars, bm25Vars>>

SpecLex == Init /\ [][LexNext]_vars

\* ---------------------------------------------------------------- SpecConc
\* one thread in update_project_index and one in search, on the same project,
\* interleaved at every file operation

ConcNext ==
    \/ \E new_chunks \in ConcLists :
          /\ updates < MaxUpdates
          /\ update_load("X", new_chunks)
          /\ UNCHANGED ingestVars
    \/ update_open_model /\ UNCHANGED ingestVars
    \/ update_dump_model /\ UNCHANGED ingestVars
    \/ update_open_data /\ UNCHANGED ingestVars
    \/ update_dump_data /\ UNCHANGED ingestVars
    \/ search_exists("X") /\ UNCHANGED ingestVars
    \/ search_load_model /\ UNCHANGED ingestVars
    \/ search_load_data(Bm25TopK) /\ UNCHANGED ingestVars
    \/ search_return /\ UNCHANGED ingestVars

SpecConc == Init /\ [][ConcNext]_vars

\* ---------------------------------------------------------------- SpecFuse
\* the merge/dedup step of chat_stream on arbitrary short candidate lists
Candidate(id, text) == Document(<<"", text>>, Item(id, text).metadata, None)
Candidates == {Candidate(i, t) : i \in {Uuid5("a.docx", 0), Uuid5("a.docx", 1), NoId},
                                 t \in {1, 2}}
CandidateLists ==
    {<<>>} \cup {<<x>> : x \in Candidates} \cup {<<x, y>> : x \in Candidates, y \in Candidates}

merge_step(bm25_docs, vector_docs) ==
    /\ chat.pc = "idle"
    /\ chat' = [pc |-> "fused", bm25_docs |-> bm25_docs, vector_docs |-> vector_docs,
                initial_docs |-> fuse(bm25_docs, vector_docs, 1, {}, <<>>).initial_docs]

FuseNext ==
    \/ \E b \in CandidateLists, v \in CandidateLists :
          /\ merge_step(b, v)
          /\ UNCHANGED <<ingestVars, bm25Vars>>
    \/ /\ chat.pc = "fused"
       /\ chat' = Idle
       /\ UNCHANGED <<ingestVars, bm25Vars>>

SpecFuse == Init /\ [][FuseNext]_vars

\* ---------------------------------------------------------------- SpecFilter
\* the filter compilation of chat_stream on every shape of filter_config
FilterConfigs ==
    {Config(p, t, f, k) :
        p \in {ProjNone, ProjStr(""), ProjStr(AllProjects), ProjStr("X"),
               ProjList(<<>>), ProjList(<<"X">>), ProjList(<<"X", "Y">>)},
        t \in {None, "", AllTypes, "tech"},
        f \in {<<>>, <<"a.docx">>, <<"a.docx", "b.docx">>},
        k \in {1, 2}}

compile_step(cfg) ==
    /\ chat.pc = "idle"
    /\ chat' = [pc |-> "compiled", cfg |-> cfg, filter |-> build_filter(cfg)]

FilterNext ==
    \/ \E cfg \in FilterConfigs :
          /\ compile_step(cfg)
          /\ UNCHANGED <<ingestVars, bm25Vars>>
    \/ /\ chat.pc = "compiled"
       /\ chat' = Idle
       /\ UNCHANGED <<ingestVars, bm25Vars>>

SpecFilter == Init /\ [][FilterNext]_vars

\* ---------------------------------------------------------------- SpecStream
\* the event stream of chat_stream over a Word file or an Excel workbook, with
\* the reranker, the language model and the Excel agent healthy or failing
StreamFiles == {"a.docx", "c.xlsx"}
StreamConfigs == {Config(ProjStr(p), AllTypes, <<>>, k) : p \in {AllProjects, "X"}, k \in {2, 4}}
StreamEnvs ==
    {[Env("ok", "ok", "ok", r, l, "ok") EXCEPT !.excel = x] :
        r \in {"none", "ok"}, l \in {"ok", "raise"}, x \in {"ok", "raise"}}

StreamNext ==
    \/ \E name \in StreamFiles, body \in Bodies :
          /\ chat.pc = "idle"
          /\ ingests < MaxLoads
          /\ IsExcel(name) => \A k \in 1..Len(body) : body[k] # 0
          /\ process_file(name, "X", "tech", body, TRUE, TRUE, TRUE, TRUE, TRUE, TRUE)
          /\ UNCHANGED <<bm25Vars, chat>>
    \/ \E name \in StreamFiles :
          /\ chat.pc = "idle"
          /\ updates < MaxFeeds
          /\ StoredChunks(name, "X") # <<>>
          /\ update_project_index("X", StoredChunks(name, "X"))
          /\ UNCHANGED <<ingestVars, chat>>
    \/ \E cfg \in StreamConfigs, env \in StreamEnvs :
          /\ chat_stream(cfg, env)
          /\ UNCHANGED <<ingestVars, bm25Vars>>
    \/ /\ close
       /\ UNCHANGED <<ingestVars, bm25Vars>>

SpecStream == Init /\ [][StreamNext]_vars

\* ---------------------------------------------------------------- SpecDedup
\* runs of process_file on one file name with every outcome of every step, the
\* lookup and the insert of DeduplicationService included; chat keeps, for the
\* last run, its arguments, the outcome of each step, the stores as the run
\* found them, and the contents for which some run so far returned "success"
DedupBodies == {<<1>>, <<2, 0>>, <<0>>}
Stores == <<collection, docNodes, chunkNodes, containsE, nextE, registry, processed>>
SucceededSoFar == IF chat.pc = "idle" THEN {} ELSE chat.succeeded

DedupNext ==
    \E body \in DedupBodies, force \in BOOLEAN, parseOk \in BOOLEAN, vectorOk \in BOOLEAN,
       graphOk \in BOOLEAN, checkOk \in BOOLEAN, markOk \in BOOLEAN :
        /\ process_file("a.docx", "X", "tech", body, force, parseOk, vectorOk, graphOk,
                        checkOk, markOk)
        /\ chat' = [pc |-> "run", body |-> body, force |-> force,
                    parseOk |-> parseOk, vectorOk |-> vectorOk, graphOk |-> graphOk,
                    checkOk |-> checkOk, markOk |-> markOk,
                    before |-> Stores,
                    marked |-> {b \in DedupBodies : get_file_hash(b) \in processed},
                    succeededBefore |-> SucceededSoFar,
                    succeeded |-> SucceededSoFar \cup
                                  (IF lastRun'.status = "success" THEN {body} ELSE {})]
        /\ UNCHANGED bm25Vars

SpecDedup == Init /\ [][DedupNext]_vars

\* ---------------------------------------------------------------- SpecWriter
\* runs of the writer agent on one cache key, with every outline of TocLen
\* entries, the workers finishing in every order, each chapter succeeding or
\* failing, and the consumer dropping the stream at any yield of the loop
WriterNext ==
    \/ \E new_toc \in Outlines :
          /\ writer_start(new_toc)
          /\ UNCHANGED <<ingestVars, bm25Vars>>
    \/ \E i \in 1..TocLen, ok \in BOOLEAN :
          /\ writer_complete(i, ok)
          /\ UNCHANGED <<ingestVars, bm25Vars>>
    \/ \E i \in 1..TocLen :
          /\ writer_close_at_status(i)
          /\ UNCHANGED <<ingestVars, bm25Vars>>
    \/ /\ writer_close
       /\ UNCHANGED <<ingestVars, bm25Vars>>
    \/ /\ writer_finish
       /\ UNCHANGED <<ingestVars, bm25Vars>>

SpecWriter == Init /\ [][WriterNext]_vars

\* ================================================================ claims
\* C1: re-ingesting identical content (process_file with force_update, then
\* add_chunks) leaves exactly one record per logical chunk: no two records of the
\* collection carry the same content and the same metadata (source file, project,
\* category, position id) under different store ids.
C1_OneRecordPerLogicalChunk ==
    \A r1 \in collection, r2 \in collection :
        (r1.content = r2.content /\ r1.metadata = r2.metadata) => r1.id = r2.id

\* the chain a chunk node lies on: the chunk nodes linked to it by NEXT edges,
\* followed in either direction
RECURSIVE Connected(_)
Connected(S) ==
    LET T == S \cup {e[2] : e \in {x \in nextE : x[1] \in S}}
               \cup {e[1] : e \in {x \in nextE : x[2] \in S}}
    IN IF T = S THEN S ELSE Connected(T)
ChainOf(id) == Connected({id})

\* the distinct values of a sequence, in order of first occurrence
RECURSIVE Distinct(_)
Distinct(s) ==
    IF s = <<>> THEN <<>>
    ELSE LET front == Distinct(SubSeq(s, 1, Len(s) - 1))
         IN IF s[Len(s)] \in Range(front) THEN front ELSE Append(front, s[Len(s)])

PrevIds(rows) == Distinct(SelectSeq([k \in 1..Len(rows) |-> rows[k].prev.id], LAMBDA x : x # NoId))
NextIds(rows) == Distinct(SelectSeq([k \in 1..Len(rows) |-> rows[k].next.id], LAMBDA x : x # NoId))

\* C7: for a chain of length L and a target at index i, get_context_window(id, w)
\* returns exactly min(i, w) preceding and min(L-1-i, w) following chunks, ordered
\* by chain index: the chunks at indices i-min(i,w)..i-1 and i+1..i+min(L-1-i,w).
C7_GraphWindow ==
    \A id \in DOMAIN chunkNodes, w \in 1..MaxWindow :
        LET rows == get_context_window(chunkNodes, nextE, id, w)
            L == Cardinality(ChainOf(id))
            i == chunkNodes[id].index
            np == Min(i, w)
            nn == Min(L - 1 - i, w)
        IN /\ PrevIds(rows) = [k \in 1..np |-> Uuid5(id[1], i - np + k - 1)]
           /\ NextIds(rows) = [k \in 1..nn |-> Uuid5(id[1], i + k)]
           /\ \A k \in 1..Len(rows) : rows[k].target.id = id

\* C7 witness: Scenario B, a chain [c0,c1,c2,c3] and the window of 1 around c2
C7_Witness ==
    \E f \in Files :
        /\ {Uuid5(f, k) : k \in 0..3} \subseteq DOMAIN chunkNodes
        /\ Cardinality(ChainOf(Uuid5(f, 2))) = 4
        /\ PrevIds(get_context_window(chunkNodes, nextE, Uuid5(f, 2), 1)) = <<Uuid5(f, 1)>>
        /\ NextIds(get_context_window(chunkNodes, nextE, Uuid5(f, 2), 1)) = <<Uuid5(f, 3)>>

\* ---------------------------------------------------------------- C2
Corpus(p) == IF safe_name(p) \in DOMAIN dataFile THEN dataFile[safe_name(p)] ELSE <<>>
OnlyProject(p) == history # <<>> /\ \A k \in 1..Len(history) : history[k][1] = p
\* <<k, j>>: the j-th chunk of the k-th call
Submissions ==
    UNION {{<<k, j>> : j \in 1..Len(history[k][2])} : k \in 1..Len(history)}
SubmittedIds == {history[x[1]][2][x[2]].metadata.chunk_id : x \in Submissions} \ {NoId}
LastSubmission(id) ==
    LET of_id == {x \in Submissions : history[x[1]][2][x[2]].metadata.chunk_id = id}
        last == CHOOSE x \in of_id : \A y \in of_id :
                    y[1] < x[1] \/ (y[1] = x[1] /\ y[2] <= x[2])
    IN history[last[1]][2][last[2]]

\* C2: after any sequence of update_project_index calls for one project the
\* persisted corpus holds exactly one record per submitted chunk_id, that record is
\* the one of the most recent submission of the id, every id ever submitted is
\* still there, and no record carries an id that was never submitted.
C2_UpsertByChunkId ==
    \A p \in LexProjects :
        OnlyProject(p) =>
            LET corpus == Corpus(p)
            IN /\ \A id \in SubmittedIds :
                     /\ Cardinality({n \in 1..Len(corpus) : corpus[n].metadata.chunk_id = id}) = 1
                     /\ \E n \in 1..Len(corpus) : corpus[n] = LastSubmission(id)
               /\ \A n \in 1..Len(corpus) :
                     corpus[n].metadata.chunk_id # NoId => corpus[n].metadata.chunk_id \in SubmittedIds

\* C2 witness: two calls for project X; the id of a.docx chunk 0 is submitted in
\* both with different contents, the id of chunk 1 only in the first
C2_Witness ==
    /\ OnlyProject("X")
    /\ Len(history) = 2
    /\ history[1][2] = <<Item(Uuid5("a.docx", 0), 1), Item(Uuid5("a.docx", 1), 1)>>
    /\ history[2][2] = <<Item(Uuid5("a.docx", 0), 2)>>
    /\ Len(Corpus("X")) = 2
    /\ Item(Uuid5("a.docx", 0), 2) \in Range(Corpus("X"))
    /\ Item(Uuid5("a.docx", 1), 1) \in Range(Corpus("X"))

\* ---------------------------------------------------------------- C3
ClaimKey(d) == IF d.metadata.chunk_id # NoId THEN d.metadata.chunk_id ELSE d.page_content
Keys(docs) == {ClaimKey(docs[k]) : k \in 1..Len(docs)}
NoDuplicates(docs) == Cardinality(Keys(docs)) = Len(docs)

\* C3: for a lexical list A and a vector list B, each free of duplicate keys and
\* sharing exactly N keys (the key is the chunk id when present, the content
\* otherwise), the fused list has exactly |A| + |B| - N entries, one per key.
C3_FusedCount ==
    chat.pc = "fused" =>
        LET A == chat.bm25_docs
            B == chat.vector_docs
            N == Cardinality(Keys(A) \cap Keys(B))
        IN (NoDuplicates(A) /\ NoDuplicates(B)) =>
              /\ Len(chat.initial_docs) = Len(A) + Len(B) - N
              /\ NoDuplicates(chat.initial_docs)
              /\ Keys(chat.initial_docs) = Keys(A) \cup Keys(B)

\* C3 witness: two lists of two that share one chunk id, each with one id-less
\* document of its own: three keys in all, one of them shared
C3_Witness ==
    /\ chat.pc = "fused"
    /\ chat.bm25_docs = <<Candidate(Uuid5("a.docx", 0), 1), Candidate(NoId, 1)>>
    /\ chat.vector_docs = <<Candidate(Uuid5("a.docx", 0), 2), Candidate(NoId, 2)>>
    /\ Len(chat.initial_docs) = 3

\* ---------------------------------------------------------------- C4
\* C4: whenever filter_config['files'] is a non-empty list, every candidate of the
\* fused result (vector, lexical and graph-expanded alike) has its source_file in
\* files, whatever project or type filter came with it.
C4_FilesScopePrecedence ==
    (chat.pc = "done" /\ chat.cfg.files # <<>>) =>
        \A k \in 1..Len(chat.res.initial_docs) :
            chat.res.initial_docs[k].metadata.source_file \in Range(chat.cfg.files)

\* ---------------------------------------------------------------- C5
\* the project a candidate belongs to: its project_name, and for a graph-expanded
\* candidate (which carries none) a project its text was ingested under
BelongsTo(d, project) ==
    IF d.metadata.source_method = "Graph"
    THEN project \in origin[d.page_content[2]]
    ELSE d.metadata.project_name = project

\* C5: for a query scoped to one project X (no file list), no candidate of the
\* emitted list belongs to another project, whichever source contributed it.
C5_ProjectScoping ==
    \A X \in Projects :
        (chat.pc = "done" /\ chat.cfg.project = ProjStr(X) /\ chat.cfg.files = <<>>) =>
            \A k \in 1..Len(chat.res.final_docs) : BelongsTo(chat.res.final_docs[k], X)

\* ---------------------------------------------------------------- C6
ScopeGiven(project) ==
    project \notin {ProjNone, ProjStr(""), ProjList(<<>>), ProjStr(AllProjects)}
TypeGiven(type) == type \notin {None, "", AllTypes}
ProjectPredicate(project) ==
    IF project.kind = "list" THEN Cond("project_name", "$in", project.val)
    ELSE Cond("project_name", "$eq", project.val)
CategoryPredicate(type) == Cond("category", "$eq", <<type>>)

\* C6: if files is a non-empty list the vector filter is exactly {source_file in
\* files}; otherwise it is the AND of the project predicate (project given and not
\* 'all') and the category predicate (type given and not 'all'), the single
\* predicate when only one applies, and no filter when neither does.
C6_FilterCompilation ==
    chat.pc = "compiled" =>
        LET cfg == chat.cfg
            f == chat.filter
            P == ProjectPredicate(cfg.project)
            T == CategoryPredicate(cfg.type)
        IN IF cfg.files # <<>>
           THEN f = [op |-> "single", conds |-> <<Cond("source_file", "$in", cfg.files)>>]
           ELSE IF ScopeGiven(cfg.project) /\ TypeGiven(cfg.type)
           THEN f = [op |-> "$and", conds |-> <<P, T>>]
           ELSE IF ScopeGiven(cfg.project) THEN f = [op |-> "single", conds |-> <<P>>]
           ELSE IF TypeGiven(cfg.type) THEN f = [op |-> "single", conds |-> <<T>>]
           ELSE f = [op |-> "absent", conds |-> <<>>]

\* C6 witness: files, a project list and a type at once; the filter is the file
\* predicate alone
C6_Witness ==
    /\ chat.pc = "compiled"
    /\ chat.cfg.files = <<"a.docx", "b.docx">>
    /\ chat.cfg.project = ProjList(<<"X", "Y">>)
    /\ chat.cfg.type = "tech"
    /\ chat.filter = [op |-> "single",
                      conds |-> <<Cond("source_file", "$in", <<"a.docx", "b.docx">>)>>]

\* ---------------------------------------------------------------- C8
ProbeIds == {Uuid5(f, i) : f \in Files, i \in 0..4} \cup {NoId}
Linked(a, b) == <<a, b>> \in nextE \/ <<b, a>> \in nextE

\* C8: get_context_window on an id without a node returns no row and raises
\* nothing; the expansion in chat_stream keeps every fused candidate, in order, and
\* adds only neighbours of top candidates that do have a node.
C8_UnknownChunk ==
    /\ \A id \in ProbeIds \ DOMAIN chunkNodes, w \in 1..MaxWindow :
          get_context_window(chunkNodes, nextE, id, w) = <<>>
    /\ (chat.pc = "done" /\ chat.env.graph = "ok") =>
          LET fused == chat.res.fused
              out == chat.res.initial_docs
              top == Take(fused, GraphTopN)
          IN /\ chat.res.exc # "graph"
             /\ Len(out) >= Len(fused)
             /\ SubSeq(out, 1, Len(fused)) = fused
             /\ \A k \in (Len(fused) + 1)..Len(out) :
                   /\ out[k].metadata.source_method = "Graph"
                   /\ \E j \in 1..Len(top) :
                         /\ top[j].metadata.chunk_id \in DOMAIN chunkNodes
                         /\ Linked(top[j].metadata.chunk_id, out[k].metadata.chunk_id)

\* C8 witness: a finished query whose top candidates include one with a chunk id
\* that has no node and one that has, the latter being expanded
C8_Witness ==
    /\ chat.pc = "done"
    /\ chat.env.graph = "ok"
    /\ chat.res.exc = "none"
    /\ \E j \in 1..Len(Take(chat.res.fused, GraphTopN)) :
          /\ chat.res.fused[j].metadata.chunk_id # NoId
          /\ chat.res.fused[j].metadata.chunk_id \notin DOMAIN chunkNodes
    /\ Len(chat.res.initial_docs) > Len(chat.res.fused)

\* ---------------------------------------------------------------- C9
Failing(health) == health \in {"none", "raise"}
RECURSIVE FirstByKey(_)
FirstByKey(docs) ==
    IF docs = <<>> THEN <<>>
    ELSE LET front == FirstByKey(SubSeq(docs, 1, Len(docs) - 1))
         IN IF ClaimKey(docs[Len(docs)]) \in Keys(front) THEN front
            ELSE Append(front, docs[Len(docs)])
Retag(docs, method) == [k \in 1..Len(docs) |-> Tagged(docs[k], method)]

HasEvent(events, type) == \E k \in 1..Len(events) : events[k].type = type

\* C10: whatever optional stage (query rewrite, graph expansion, rerank) is absent
\* or raises, chat_stream lets no exception reach its caller and still emits its
\* sources event and a text event.
C10_OptionalStagesNeutralized ==
    chat.pc = "done" =>
        /\ chat.res.exc = "none"
        /\ HasEvent(chat.res.events, "sources")
        /\ HasEvent(chat.res.events, "text")

\* ---------------------------------------------------------------- C12
EventIndexes(events, type) == {k \in 1..Len(events) : events[k].type = type}

\* C12: in every event stream of chat_stream in which a sources event occurs,
\* it occurs exactly once and precedes every text event of that query.
C12_SourcesOnceBeforeText ==
    chat.pc = "done" =>
        LET events == chat.res.events
        IN EventIndexes(events, "sources") # {} =>
              /\ Cardinality(EventIndexes(events, "sources")) = 1
              /\ \A i \in EventIndexes(events, "sources"), j \in EventIndexes(events, "text") :
                    i < j

\* ---------------------------------------------------------------- C13
\* C13: whenever chat_stream emits a sources event, its data is the complete
\* final candidate list of the query (after rerank or truncation to top_k), in
\* the same order, each entry with its content and its metadata, provenance tag
\* included.
C13_SourcesCarryFinalList ==
    chat.pc = "done" =>
        \A k \in EventIndexes(chat.res.events, "sources") :
            /\ chat.res.events[k].data = chat.res.final_docs
            /\ \A n \in 1..Len(chat.res.events[k].data) :
                  chat.res.events[k].data[n].metadata.source_method
                      \in {"Vector", "BM25", "Graph"}

\* ---------------------------------------------------------------- C14
\* C14: when both vector and lexical recall yield no candidate, chat_stream
\* raises nothing and emits no error event; it emits one sources event with an
\* empty list and, after it, the generated answer, whose context is the
\* "no documents found, answering from general knowledge" disclaimer (the answer
\* is generated when the language model is in service).
C14_EmptyResultNotAnError ==
    (chat.pc = "done" /\ chat.res.vector_docs = <<>> /\ chat.res.bm25_docs = <<>>) =>
        LET events == chat.res.events
        IN /\ chat.res.exc = "none"
           /\ EventIndexes(events, "error") = {}
           /\ chat.res.final_docs = <<>>
           /\ \E k \in 1..Len(events) :
                 /\ EventIndexes(events, "sources") = {k}
                 /\ events[k].data = <<>>
                 /\ EventIndexes(events, "text") = {k + 1}
                 /\ Len(events) = k + 1
                 /\ chat.env.llm = "ok" => events[k + 1].data = "disclaimer"

\* C14 witness: a finished query over an ingested document whose recall sources
\* both returned nothing, with a reranker that would raise if it were called, and
\* the disclaimer answer in the stream
C14_Witness ==
    /\ chat.pc = "done"
    /\ collection # {}
    /\ chat.res.vector_docs = <<>>
    /\ chat.res.bm25_docs = <<>>
    /\ chat.env.rerank = "raise"
    /\ chat.env.llm = "ok"
    /\ HasEvent(chat.res.events, "sources")
    /\ chat.res.events[Len(chat.res.events)] = Event("text", "disclaimer")

\* ---------------------------------------------------------------- C15
\* C15: an exception raised in chat_stream after the stream has started (recall,
\* fusion, graph expansion, rerank, Excel analysis, generation) never reaches the
\* caller, and the stream still ends with a visible error as its last event:
\* a failing stage that is not skipped in silence ends the stream with an event
\* that carries the error (the code labels errors in text events).
C15_ErrorsEndTheStreamVisibly ==
    chat.pc = "done" =>
        LET events == chat.res.events
        IN /\ chat.res.exc = "none"
           /\ events # <<>>
           /\ (chat.env.llm = "raise" /\ ~detect_excel_task(chat.res.final_docs))
                 => events[Len(events)] = Event("text", "llm_error")

\* ---------------------------------------------------------------- C16
NonIncreasing(items) == \A i \in 1..Len(items) - 1 : items[i].score >= items[i + 1].score
IsPrefix(short, long) ==
    /\ Len(short) <= Len(long)
    /\ \A k \in 1..Len(short) : short[k] = long[k]

IdsOf(items) == [k \in 1..Len(items) |-> items[k].id]
NoTies(items) ==
    \A i \in 1..Len(items), j \in 1..Len(items) :
        i # j => PredictScore(items[i].content) # PredictScore(items[j].content)
\* the returned list holds the model's scores, does not increase in score, has
\* min(top_k, n) entries and leaves out no passage the model scores higher than
\* a returned one
TopByModelScore(out, input, top_k) ==
    /\ Len(out) = Min(top_k, Len(input))
    /\ PassagesOf(out) \subseteq PassagesOf(input)
    /\ \A k \in 1..Len(out) : out[k].score = PredictScore(out[k].content)
    /\ NonIncreasing(out)
    /\ \A i \in 1..Len(input) :
          input[i].id \notin PassagesOf(out) =>
              \A k \in 1..Len(out) : PredictScore(input[i].content) <= out[k].score

\* C17 as stated: the reranker returns the top k candidates by model score as a
\* function of the passages alone; two lists of the same passages, whatever their
\* upstream scores and their order, give the same output order in
\* BGEReranker.rank and in the rerank step of TenderRetriever.search, and rank
\* leaves its input list and items unmodified.
C17_RerankerPure ==
    chat.pc = "ranked" =>
        /\ TopByModelScore(chat.rank_a.ranked, chat.a, chat.top_k)
        /\ TopByModelScore(chat.search_a.results, chat.a, chat.top_k)
        /\ IdsOf(chat.rank_a.ranked) = IdsOf(chat.rank_b.ranked)
        /\ IdsOf(chat.search_a.results) = IdsOf(chat.search_b.results)
        /\ chat.rank_a.initial_results = chat.a
        /\ chat.rank_b.initial_results = chat.b

\* C17 amended: the same, with the output order of two lists of the same passages
\* equal when the lists are in the same order (whatever their upstream scores) or
\* when no two of the passages have the same model score; passages of equal
\* model score keep the order they have in the input.
C17_RerankerPureUpToTies ==
    chat.pc = "ranked" =>
        /\ TopByModelScore(chat.rank_a.ranked, chat.a, chat.top_k)
        /\ TopByModelScore(chat.search_a.results, chat.a, chat.top_k)
        /\ (NoTies(chat.a) \/ IdsOf(chat.a) = IdsOf(chat.b)) =>
              /\ IdsOf(chat.rank_a.ranked) = IdsOf(chat.rank_b.ranked)
              /\ IdsOf(chat.search_a.results) = IdsOf(chat.search_b.results)
        /\ \A i \in 1..Len(chat.a), j \in 1..Len(chat.a) :
              (i < j /\ PredictScore(chat.a[i].content) = PredictScore(chat.a[j].content)
                     /\ chat.a[j].id \in PassagesOf(chat.rank_a.ranked))
                 => \E m \in 1..Len(chat.rank_a.ranked), n \in 1..Len(chat.rank_a.ranked) :
                       /\ m < n
                       /\ chat.rank_a.ranked[m].id = chat.a[i].id
                       /\ chat.rank_a.ranked[n].id = chat.a[j].id
        /\ chat.rank_a.initial_results = chat.a
        /\ chat.rank_b.initial_results = chat.b

\* C17 witness: two lists of the same two passages, of different model scores, in
\* opposite orders and with different upstream scores, ranked to the same output
C17_Witness ==
    /\ chat.pc = "ranked"
    /\ Len(chat.a) = MaxCandidates
    /\ NoTies(chat.a)
    /\ IdsOf(chat.a) # IdsOf(chat.b)
    /\ \E k \in 1..Len(chat.a), n \in 1..Len(chat.b) :
          chat.a[k].id = chat.b[n].id /\ chat.a[k].score # chat.b[n].score
    /\ chat.rank_a.ranked = chat.rank_b.ranked
    /\ IdsOf(chat.rank_a.ranked) # IdsOf(chat.a)

\* ---------------------------------------------------------------- C18
Direct(doc) == doc.metadata.source_method \in {"Vector", "BM25"}
GraphBelowDirect(docs) ==
    \A i \in 1..Len(docs), j \in 1..Len(docs) :
        (i < j /\ docs[i].metadata.source_method = "Graph") => ~Direct(docs[j])

C19_CreateChainIdempotent ==
    (lastRun.status = "graph" /\ lastRun.again) => Graph = lastRun.before

\* C19 witness: a chain of several chunks written twice in a row
C19_Witness ==
    /\ lastRun.status = "graph"
    /\ lastRun.again
    /\ Len(lastRun.call.chunks) > 2
    /\ <<lastRun.call.file, lastRun.call.project>> \in docNodes
    /\ <<Uuid5(lastRun.call.file, 0), Uuid5(lastRun.call.file, 1)>> \in nextE

\* ---------------------------------------------------------------- C20
Successors(id) == {e[2] : e \in {x \in nextE : x[1] = id}}
Predecessors(id) == {e[1] : e \in {x \in nextE : x[2] = id}}
\* no cycle: removing the nodes without a predecessor, again and again, leaves
\* nothing
RECURSIVE Peels(_)
Peels(ids) ==
    LET heads == {id \in ids : Predecessors(id) \cap ids = {}}
    IN IF ids = {} THEN TRUE
       ELSE IF heads = {} THEN FALSE
       ELSE Peels(ids \ heads)
DocumentsOf(id) == {e[1] : e \in {x \in containsE : x[2] = id}}
ChunksOf(doc) == {e[2] : e \in {x \in containsE : x[1] = doc}}

\* C20: after any sequence of create_document_structure calls the NEXT relation
\* is acyclic, every chunk has at most one predecessor and at most one successor,
\* every chunk belongs to exactly one document's chain, and the chain of a
\* document is the chunks of its latest ingestion in emission order.
C20_ChainInvariant ==
    /\ Peels(DOMAIN chunkNodes)
    /\ \A id \in DOMAIN chunkNodes :
          /\ Cardinality(Successors(id)) <= 1
          /\ Cardinality(Predecessors(id)) <= 1
          /\ Cardinality(DocumentsOf(id)) = 1
    /\ lastRun.status = "graph" =>
          LET call == lastRun.call
              ids == [k \in 1..Len(call.chunks) |-> Uuid5(call.file, k - 1)]
          IN /\ ChunksOf(<<call.file, call.project>>) = Range(ids)
             /\ \A k \in 1..Len(ids) :
                   /\ chunkNodes[ids[k]].text = call.chunks[k].content
                   /\ Successors(ids[k]) = IF k < Len(ids) THEN {ids[k + 1]} ELSE {}

\* ---------------------------------------------------------------- C21
\* the records of the collection that the last process_file run wrote
WrittenByLastRun ==
    {r \in collection : /\ r.metadata.source_file = lastRun.file
                        /\ r.metadata.project_name = lastRun.project
                        /\ r.content \in Range(lastRun.body)}

\* C21: every chunk node is keyed by the chunk's stable id: for every chunk that
\* process_file wrote, the graph node that create_document_structure made for it
\* has the chunk_id of the chunk's metadata as its id, so that the node found
\* under the chunk_id of a recalled chunk is that chunk (same text), and a
\* neighbour added by the graph expansion is never a chunk that was recalled.
C21_GraphNodeKeyedByChunkId ==
    /\ lastRun.status = "success" =>
          \A r \in WrittenByLastRun :
              /\ r.metadata.chunk_id \in DOMAIN chunkNodes
              /\ chunkNodes[r.metadata.chunk_id].text = r.content
    /\ (chat.pc = "done" /\ chat.res.exc = "none") =>
          \A i \in 1..Len(chat.res.initial_docs), j \in 1..Len(chat.res.initial_docs) :
              (chat.res.initial_docs[i].metadata.source_method = "Graph" /\ Direct(chat.res.initial_docs[j]))
                 => chat.res.initial_docs[i].page_content[2] # chat.res.initial_docs[j].page_content[2]

\* ---------------------------------------------------------------- C22
\* C22: lexical persistence is atomic: in every interleaving of
\* update_project_index and search on one project, a search that finds the
\* project's index reads an index and a corpus that one completed update wrote
\* together: it never reads a partially written or missing file, and never the
\* index of one update with the corpus of another.
C22_AtomicPersistence ==
    (chat.pc = "io" /\ chat.reader.pc = "done") =>
        /\ chat.reader.outcome \in {"absent", "pair"}
        /\ chat.reader.outcome = "pair" =>
              chat.reader.bm25 = build_index(chat.reader.corpus_data)

\* ---------------------------------------------------------------- C23
\* the persisted index of a project can be read: both files are there, neither
\* is empty, and the index was built over as many documents as the corpus holds
Readable(proj) ==
    LET safe == safe_name(proj)
    IN /\ safe \in DOMAIN modelFile
       /\ safe \in DOMAIN dataFile
       /\ modelFile[safe] # <<>>
       /\ dataFile[safe] # <<>>
       /\ Len(modelFile[safe]) = Len(dataFile[safe])
\* the documents of a readable index, best lexical score first, at most top_k
IsTopOf(docs, proj, top_k) ==
    LET safe == safe_name(proj)
    IN /\ Len(docs) = Min(top_k, Len(dataFile[safe]))
       /\ \E pos \in [1..Len(docs) -> 1..Len(dataFile[safe])] :
             /\ \A a \in 1..Len(docs), b \in 1..Len(docs) : a # b => pos[a] # pos[b]
             /\ \A a \in 1..Len(docs) : docs[a] = dataFile[safe][pos[a]]
             /\ \A a \in 1..Len(docs) - 1 :
                   LexScore(modelFile[safe][pos[a]]) >= LexScore(modelFile[safe][pos[a + 1]])
             /\ \A k \in 1..Len(dataFile[safe]) :
                   (\A a \in 1..Len(docs) : pos[a] # k) =>
                       \A a \in 1..Len(docs) :
                           LexScore(modelFile[safe][k]) <= LexScore(modelFile[safe][pos[a]])
\* the results split into one part per listed project, in list order
RECURSIVE SplitsAs(_, _, _)
SplitsAs(results, projects, top_k) ==
    IF projects = <<>> THEN results = <<>>
    ELSE \E n \in 0..Len(results) :
            /\ IF Head(projects) # AllProjects /\ Readable(Head(projects))
               THEN IsTopOf(SubSeq(results, 1, n), Head(projects), top_k)
               ELSE n = 0
            /\ SplitsAs(SubSeq(results, n + 1, Len(results)), Tail(projects), top_k)

\* C23: in search(query, projects, k) a listed project whose persisted index is
\* absent or unreadable contributes no candidate and stops nothing: the result is
\* the candidates of the other listed projects, in list order; search(q, [P]) is
\* empty when P has no index on disk.
C23_AbsentIndexContributesNothing ==
    chat.pc = "lexical" => SplitsAs(chat.results, chat.projects, chat.top_k)

\* C23 witness: a search over two projects, one with an index cut short by an
\* interrupted update and one with a complete index, that returns candidates
C23_Witness ==
    /\ chat.pc = "lexical"
    /\ Len(chat.projects) = 2
    /\ \E k \in 1..2 :
          /\ chat.projects[k] # AllProjects
          /\ safe_name(chat.projects[k]) \in DOMAIN modelFile
          /\ ~Readable(chat.projects[k])
    /\ \E k \in 1..2 : chat.projects[k] # AllProjects /\ Readable(chat.projects[k])
    /\ chat.results # <<>>

\* ---------------------------------------------------------------- C24
\* the first document of a list with the given dedup key
FirstWithKey(docs, key) ==
    docs[CHOOSE k \in 1..Len(docs) :
            /\ ClaimKey(docs[k]) = key
            /\ \A n \in 1..(k - 1) : ClaimKey(docs[n]) # key]

\* C24: in the fusion of chat_stream an entry whose key was recalled by the
\* lexical source (by it alone or by both sources) carries the tag BM25 and the
\* content and metadata of the first lexical copy; an entry recalled by the
\* vector source alone carries the tag Vector and the content and metadata of
\* its first vector copy. No vector-only candidate is tagged as lexical.
C24_ProvenanceOnDuplicates ==
    chat.pc = "fused" =>
        \A k \in 1..Len(chat.initial_docs) :
            LET e == chat.initial_docs[k]
                key == ClaimKey(e)
            IN IF key \in Keys(chat.bm25_docs)
               THEN e = [FirstWithKey(chat.bm25_docs, key) EXCEPT !.metadata.source_method = "BM25"]
               ELSE e = [FirstWithKey(chat.vector_docs, key) EXCEPT !.metadata.source_method = "Vector"]

\* C24 witness: one chunk id recalled by both sources with different content, and
\* one candidate recalled by the vector source alone
C24_Witness ==
    /\ chat.pc = "fused"
    /\ \E b \in 1..Len(chat.bm25_docs), v \in 1..Len(chat.vector_docs) :
          /\ chat.bm25_docs[b].metadata.chunk_id # NoId
          /\ chat.bm25_docs[b].metadata.chunk_id = chat.vector_docs[v].metadata.chunk_id
          /\ chat.bm25_docs[b].page_content # chat.vector_docs[v].page_content
    /\ \E k \in 1..Len(chat.initial_docs) :
          chat.initial_docs[k].metadata.source_method = "Vector"
    /\ \E k \in 1..Len(chat.initial_docs) :
          chat.initial_docs[k].metadata.source_method = "BM25"

\* ---------------------------------------------------------------- C25
StepsOfChat == stream_steps(chat.cfg, chat.env, chat.res)

\* C25: on the standard path of chat_stream every external call that is performed
\* (query rewrite, vector recall, lexical recall, graph traversal, rerank
\* inference, generation call) has an event immediately before it, so that no two
\* external calls follow one another without an event in between.
C25_EventBeforeEveryCall ==
    chat.pc = "done" =>
        \A k \in 1..Len(StepsOfChat) :
            StepsOfChat[k].type = "call" =>
                /\ k > 1
                /\ StepsOfChat[k - 1].type # "call"

\* the steps of a run, without the calls, are the events of the run
StepsCarryTheEvents ==
    chat.pc = "done" =>
        SelectSeq(StepsOfChat, LAMBDA x : x.type # "call") = chat.res.events

\* ---------------------------------------------------------------- C26
InWriterRun == chat.pc \in {"writing", "finished", "closed"}

\* C26: in every run of the writer agent on one cache key, also after runs that
\* were dropped part-way, a chapter that the cache held when the run began is not
\* handed to write_chapter and keeps its cached text, and write_chapter is invoked
\* at most once for each title of the outline.
C26_WriterCheckpointing ==
    InWriterRun =>
        /\ \A t \in DOMAIN chat.recovered :
              /\ chat.invoked[t] = 0
              /\ t \in DOMAIN chat.cache.data
              /\ chat.cache.data[t] = chat.recovered[t]
        /\ \A t \in Titles : chat.invoked[t] <= 1

\* the part of C26 about cached chapters alone
CachedChaptersReused ==
    InWriterRun =>
        \A t \in DOMAIN chat.recovered :
            /\ chat.invoked[t] = 0
            /\ t \in DOMAIN chat.cache.data
            /\ chat.cache.data[t] = chat.recovered[t]

\* ---------------------------------------------------------------- C30
PreviewIndexes(title) ==
    {k \in 1..Len(chat.events) :
        /\ chat.events[k].type = "text"
        /\ chat.events[k].data[1] = "preview"
        /\ chat.events[k].data[2] = title}

\* C30: in a finished run of the writer agent, whatever the order in which the
\* workers finished, the preview events follow the outline order, and every
\* chapter whose generation succeeded has a preview event before the final
\* events, also when an earlier chapter failed.
C30_OrderedPreviews ==
    chat.pc = "finished" =>
        /\ \A i, j \in 1..Len(chat.chapters_to_write) :
              (i < j /\ chat.chapters_to_write[i] # chat.chapters_to_write[j]) =>
                  \A a \in PreviewIndexes(chat.chapters_to_write[i]),
                     b \in PreviewIndexes(chat.chapters_to_write[j]) : a < b
        /\ \A i \in chat.succeeded : PreviewIndexes(chat.chapters_to_write[i]) # {}

\* the ordering part of C30 alone, on outlines without a repeated title
PreviewsInOutlineOrder ==
    (InWriterRun /\ \A t \in Titles : chat.invoked[t] <= 1) =>
        \A i, j \in 1..Len(chat.chapters_to_write) :
            i < j =>
                \A a \in PreviewIndexes(chat.chapters_to_write[i]),
                   b \in PreviewIndexes(chat.chapters_to_write[j]) : a < b

\* ---------------------------------------------------------------- C27
\* the persisted pair of a project: its model file and its data file, if any
PairOf(models, datas, q) ==
    <<IF safe_name(q) \in DOMAIN models THEN <<models[safe_name(q)]>> ELSE <<>>,
      IF safe_name(q) \in DOMAIN datas THEN <<datas[safe_name(q)]>> ELSE <<>>>>

\* C27: an update_project_index call on project P leaves the persisted pair of
\* every project Q other than P as it was, and a search over [Q] returns the same
\* candidates after the call as before it.
C27_ProjectIsolation ==
    [][\A q \in LexProjects :
          (Len(history') = Len(history) + 1 /\ history'[Len(history')][1] # q) =>
              /\ PairOf(modelFile', dataFile', q) = PairOf(modelFile, dataFile, q)
              /\ search(modelFile', dataFile', <<q>>, Bm25TopK)
                     = search(modelFile, dataFile, <<q>>, Bm25TopK)]_vars

\* the same for pairs of projects whose names differ after the safe-name transform
IsolationOfDistinctSafeNames ==
    [][\A q \in LexProjects :
          (/\ Len(history') = Len(history) + 1
           /\ safe_name(history'[Len(history')][1]) # safe_name(q)) =>
              /\ PairOf(modelFile', dataFile', q) = PairOf(modelFile, dataFile, q)
              /\ search(modelFile', dataFile', <<q>>, Bm25TopK)
                     = search(modelFile, dataFile, <<q>>, Bm25TopK)]_vars

\* ---------------------------------------------------------------- C28
\* C28: a process_file run with force_update false on a content for which an
\* earlier run returned "success" returns "skipped" and writes nothing to the
\* vector store, the graph store, the project registry or the processed-files
\* table.
C28_SecondRunSkipped ==
    (chat.pc = "run" /\ ~chat.force /\ chat.body \in chat.succeededBefore) =>
        /\ lastRun.status = "skipped"
        /\ Stores = chat.before

\* the same for a content that the processed-files table holds, when the lookup
\* answers
SkippedWhenRecorded ==
    (chat.pc = "run" /\ ~chat.force /\ chat.checkOk /\ chat.body \in chat.marked) =>
        /\ lastRun.status = "skipped"
        /\ Stores = chat.before

\* ---------------------------------------------------------------- C29
Marked(body) == get_file_hash(body) \in processed
\* the chunks the last run had to write are in the vector store
VectorWriteDone ==
    \A k \in 1..Len(chat.body) :
        chat.body[k] > 0 => \E r \in collection : r.content = chat.body[k]

\* C29: a content is in the processed-files table only if a process_file run on
\* it returned "success", and "success" is returned only after add_chunks
\* returned; a run that ends in "error" or "warning" or is aborted by the vector
\* write leaves the table as it was, and a run is skipped only for a content
\* marked before it; a run in which only the graph write fails returns
\* "success" and marks the content.
C29_MarkOnlyAfterSuccess ==
    chat.pc = "run" =>
        /\ \A b \in DedupBodies : Marked(b) => b \in chat.succeeded
        /\ lastRun.status = "success" => (chat.vectorOk /\ VectorWriteDone)
        /\ lastRun.status \in {"error", "warning", "raised"} => processed = chat.before[7]
        /\ lastRun.status = "skipped" => chat.body \in chat.marked
        /\ (/\ lastRun.status \notin {"skipped", "warning"}
            /\ chat.parseOk /\ chat.vectorOk /\ chat.markOk /\ ~chat.graphOk) =>
               /\ lastRun.status = "success"
               /\ Marked(chat.body)

\* C29 witness: a run whose graph write failed returned "success" and marked the
\* content, after an earlier run on the same content was aborted by the vector
\* write and left it unmarked
C29_Witness ==
    /\ chat.pc = "run"
    /\ ingests = 2
    /\ ~chat.graphOk
    /\ lastRun.status = "success"
    /\ Marked(chat.body)
    /\ chat.body \notin chat.marked
    /\ chat.body \notin chat.succeededBefore
    /\ docNodes = {}

====
